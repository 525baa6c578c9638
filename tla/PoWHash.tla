------------------------------ MODULE PoWHash ------------------------------
(***************************************************************************)
(* What CBlockHeader::GetPoWHash promises its callers, with no cache: the  *)
(* answer to a query about a header is the LYRA2 hash of the header's 80   *)
(* bytes (nVersion .. nNonce).  LYRA2 is modelled as an injective function *)
(* of the header: two headers never share a PoW hash.                      *)
(***************************************************************************)
CONSTANTS
    Headers,   \* the block headers callers ask about
    NoAnswer   \* no query answered yet

VARIABLE answer  \* the last query answered: the header and the hash returned

Lyra2(hdr) == <<"lyra2", hdr>>

Init == answer = NoAnswer

Next == \E hdr \in Headers : answer' = [header |-> hdr, hash |-> Lyra2(hdr)]

Spec == Init /\ [][Next]_answer

=============================================================================
