------------------------------ MODULE R1Proof ------------------------------
(***************************************************************************)
(* The wire formats of sigma::R1Proof (src/sigma/r1_proof.h).              *)
(*                                                                         *)
(* Two formats coexist.  The raw one (memoryRequired / serialize /         *)
(* deserialize) writes A, C, D, every element of f_, ZA, ZC with no length *)
(* prefix; the reader is told n and m and reads m*(n-1) elements of f.     *)
(* The stream one (SerializationOp, READWRITE) writes f_ as a std::vector, *)
(* that is with a CompactSize length prefix, so it accepts an f of any    *)
(* length.                                                                 *)
(*                                                                         *)
(* A byte is modelled as <<element, i>>: byte i of the encoding of one     *)
(* group element or scalar.  Bytes that are not the encoding of one        *)
(* element decode to a junk element.                                       *)
(***************************************************************************)
EXTENDS Naturals, Sequences, SequencesExt

CONSTANTS
    GroupElements,  \* values of A, C, D
    Scalars,        \* values of f[i], ZA, ZC
    GSize,          \* GroupElement::memoryRequired()
    SSize,          \* Scalar::memoryRequired()
    Dims,           \* the (n, m) pairs the consensus parameters may fix
    MaxF,           \* longest f_ a stream-received proof carries
    NoProof         \* no proof held yet

ASSUME GSize \in Nat \ {0} /\ SSize \in Nat \ {0}

Encode(e, size) == [i \in 1..size |-> <<e, i>>]

(* Element::deserialize: the element whose encoding the bytes are, if any. *)
Decode(bytes, size, Domain) ==
    IF \E e \in Domain : Encode(e, size) = bytes
    THEN CHOOSE e \in Domain : Encode(e, size) = bytes
    ELSE <<"junk", bytes>>

(* Mutant: room for one scalar fewer than the proof's two trailing ones.   *)
MemoryRequiredShort(n, m) == GSize * 3 + SSize * (m * (n - 1) + 1)

(* R1Proof::memoryRequired(n, m)                                           *)
MemoryRequired(n, m) == GSize * 3 + SSize * (m * (n - 1) + 2)

(* R1Proof::serialize(buffer): the bytes written from buffer on.           *)
Serialize(p) ==
    Encode(p.A, GSize) \o Encode(p.C, GSize) \o Encode(p.D, GSize)
      \o FlattenSeq([i \in 1..Len(p.f) |-> Encode(p.f[i], SSize)])
      \o Encode(p.ZA, SSize) \o Encode(p.ZC, SSize)

(* R1Proof::deserialize(buffer, n, m): the proof read and the number of    *)
(* bytes consumed; `buf` is the allocation `buffer` points into.  Nothing *)
(* bounds the reads by Len(buf): a byte past it is whatever follows.       *)
Byte(buf, i) == IF i <= Len(buf) THEN buf[i] ELSE "beyond"
Field(buf, at, size) == [i \in 1..size |-> Byte(buf, at + i)]

Deserialize(buf, n, m) ==
    LET fSize == m * (n - 1)
        fAt == 3 * GSize
        zAt == fAt + fSize * SSize
    IN [proof |-> [A |-> Decode(Field(buf, 0, GSize), GSize, GroupElements),
                   C |-> Decode(Field(buf, GSize, GSize), GSize, GroupElements),
                   D |-> Decode(Field(buf, 2 * GSize, GSize), GSize, GroupElements),
                   f |-> [i \in 1..fSize |->
                            Decode(Field(buf, fAt + (i - 1) * SSize, SSize), SSize, Scalars)],
                   ZA |-> Decode(Field(buf, zAt, SSize), SSize, Scalars),
                   ZC |-> Decode(Field(buf, zAt + SSize, SSize), SSize, Scalars)],
        read |-> zAt + 2 * SSize]

(* SerializationOp: READWRITE of the six fields, f_ as a vector (its       *)
(* CompactSize length, then the elements).  Round-tripping a proof through *)
(* a stream yields the proof whatever Len(f).                              *)
CompactSize(k) == <<"size", k>>
StreamSerialize(p) ==
    Encode(p.A, GSize) \o Encode(p.C, GSize) \o Encode(p.D, GSize)
      \o <<CompactSize(Len(p.f))>>
      \o FlattenSeq([i \in 1..Len(p.f) |-> Encode(p.f[i], SSize)])
      \o Encode(p.ZA, SSize) \o Encode(p.ZC, SSize)

StreamDeserialize(s) ==
    LET len == s[3 * GSize + 1][2]
        fAt == 3 * GSize + 1
        zAt == fAt + len * SSize
    IN [A |-> Decode(Field(s, 0, GSize), GSize, GroupElements),
        C |-> Decode(Field(s, GSize, GSize), GSize, GroupElements),
        D |-> Decode(Field(s, 2 * GSize, GSize), GSize, GroupElements),
        f |-> [i \in 1..len |-> Decode(Field(s, fAt + (i - 1) * SSize, SSize), SSize, Scalars)],
        ZA |-> Decode(Field(s, zAt, SSize), SSize, Scalars),
        ZC |-> Decode(Field(s, zAt + SSize, SSize), SSize, Scalars)]

ProofsWith(lens) ==
    [A: GroupElements, C: GroupElements, D: GroupElements,
     f: UNION {[1..k -> Scalars] : k \in lens}, ZA: Scalars, ZC: Scalars]

VARIABLES
    params,    \* the (n, m) of the consensus parameters, fixed for the run
    held,      \* the R1Proof object a node holds, or NoProof
    buf,       \* the buffer last serialized into (its allocated bytes)
    bufProof,  \* the proof that was serialized into buf
    bufDims,   \* the (n, m) buf was allocated for
    overflow,  \* serialize wrote past the end of buf
    readBack,  \* the proof last deserialized from buf, or NoProof
    readDims,  \* the (n, m) it was deserialized with
    overread   \* deserialize read past the end of buf

vars == <<params, held, buf, bufProof, bufDims, overflow, readBack, readDims, overread>>

FLens == 0..MaxF
Proofs == ProofsWith(FLens)
Uninit == "uninit"

TypeOK ==
    /\ params \in Dims
    /\ held \in Proofs \cup {NoProof}
    /\ bufProof \in Proofs \cup {NoProof}
    /\ bufDims \in Dims \cup {NoProof}
    /\ readDims \in Dims \cup {NoProof}
    /\ overflow \in BOOLEAN /\ overread \in BOOLEAN

Init ==
    /\ params \in Dims
    /\ held = NoProof
    /\ buf = <<>>
    /\ bufProof = NoProof /\ bufDims = NoProof /\ overflow = FALSE
    /\ readBack = NoProof /\ readDims = NoProof /\ overread = FALSE

(* The prover builds a proof for the protocol's (n, m): m(n-1) f values.   *)
Prove(n, m) ==
    /\ \E p \in ProofsWith({m * (n - 1)}) : held' = p
    /\ UNCHANGED <<params, buf, bufProof, bufDims, overflow, readBack, readDims, overread>>

(* A peer's proof arrives through SerializationOp: the CompactSize prefix  *)
(* it chose fixes Len(f_), any length.                                      *)
ReceiveStream ==
    /\ \E p \in Proofs : held' = StreamDeserialize(StreamSerialize(p))
    /\ UNCHANGED <<params, buf, bufProof, bufDims, overflow, readBack, readDims, overread>>

(* The caller allocates memoryRequired(n, m) bytes and calls serialize:    *)
(* the bytes within the allocation land in buf; the rest overflow it.      *)
SerializeWith(n, m) ==
    LET size == MemoryRequired(n, m)
        out == Serialize(held)
    IN /\ held # NoProof
       /\ buf' = [i \in 1..size |-> IF i <= Len(out) THEN out[i] ELSE Uninit]
       /\ bufProof' = held
       /\ bufDims' = <<n, m>>
       /\ overflow' = (Len(out) > size)
       /\ readBack' = NoProof /\ readDims' = NoProof /\ overread' = FALSE
       /\ UNCHANGED <<params, held>>

(* Mutant: the caller passes m and n the wrong way round.                   *)
SerializeToBufferSwapped(n, m) == SerializeWith(m, n)

SerializeToBuffer(n, m) == SerializeWith(n, m)

(* deserialize(buffer, n, m) into a fresh R1Proof.                         *)
DeserializeFromBuffer(n, m) ==
    LET r == Deserialize(buf, n, m) IN
    /\ bufDims # NoProof
    /\ readBack' = r.proof
    /\ readDims' = <<n, m>>
    /\ overread' = (r.read > Len(buf))
    /\ UNCHANGED <<params, held, buf, bufProof, bufDims, overflow>>

(* Every caller takes n and m from the same consensus parameters.         *)
Next ==
    \/ Prove(params[1], params[2])
    \/ SerializeToBuffer(params[1], params[2])
    \/ DeserializeFromBuffer(params[1], params[2])
    \/ ReceiveStream

Spec == Init /\ [][Next]_vars

-----------------------------------------------------------------------------
WellFormed(p, d) == Len(p.f) = d[2] * (d[1] - 1)

(* A proof of the right shape for (n, m), serialized into a buffer of     *)
(* memoryRequired(n, m) bytes and deserialized with the same (n, m), is    *)
(* read back exactly and within the buffer: memoryRequired, serialize and  *)
(* deserialize agree on the layout.                                         *)
WireRoundTrip ==
    (/\ readBack # NoProof /\ readDims = bufDims
     /\ WellFormed(bufProof, bufDims))
       => /\ readBack = bufProof
          /\ ~overflow /\ ~overread

(* serialize never writes past the memoryRequired(n, m) bytes the caller   *)
(* allocated: spec section 4.3 says a proof whose f length is not m(n-1)   *)
(* is rejected, and section 8 that f of length 4 for n=2, m=3 must be.     *)
NoBufferOverflow == ~overflow

=============================================================================
