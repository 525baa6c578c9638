-------------------------- MODULE SigmaDenomination --------------------------
(***************************************************************************)
(* The denomination registry of src/sigma/coin.cpp: the conversions        *)
(* between CoinDenomination, integer amounts and decimal labels, and       *)
(* GetAllDenoms.  The conversions have no state: each is an operator, and *)
(* the laws relating them are stated over every input of bounded sets.    *)
(*                                                                         *)
(* CoinDenomination is an enum class: besides its seven enumerators it can *)
(* hold any other value of its underlying type (a cast or a deserialised   *)
(* int); those are the members of BadDenominations.                        *)
(***************************************************************************)
EXTENDS Integers, Sequences

CONSTANTS
    COIN,             \* amount.h COIN (10^8 in the code, scaled down here)
    BadDenominations, \* enum values outside the seven enumerators
    Amounts,          \* integer amounts passed to IntegerToDenomination
    Labels,           \* strings passed to StringToDenomination
    NoCall            \* an out parameter never set

LOCAL Seqs == INSTANCE SequencesExt

(* The enumerators of CoinDenomination (sigma/coin.h).                     *)
Enumerators == {"SIGMA_DENOM_X1", "SIGMA_DENOM_X10", "SIGMA_DENOM_X50",
                "SIGMA_DENOM_X100", "SIGMA_DENOM_X500", "SIGMA_DENOM_X1000",
                "SIGMA_DENOM_X5000"}
CoinDenomination == Enumerators \cup BadDenominations

(* Each conversion below is its own switch or if-chain in coin.cpp, so    *)
(* each has its own table of cases, translated from its own lines; the    *)
(* laws at the end check that the tables agree.                            *)

(* A bool-returning conversion: ok, the out parameter, and the DoS score   *)
(* CValidationState::DoS records on failure.                               *)
Ok(out) == [ok |-> TRUE, out |-> out, dos |-> 0]
Fail(out) == [ok |-> FALSE, out |-> out, dos |-> 100]

(* The case labels of DenominationToInteger's switch: denom_out = k * COIN. *)
DenominationToIntegerCases ==
    [SIGMA_DENOM_X1 |-> 1, SIGMA_DENOM_X10 |-> 10, SIGMA_DENOM_X50 |-> 50,
     SIGMA_DENOM_X100 |-> 100, SIGMA_DENOM_X500 |-> 500,
     SIGMA_DENOM_X1000 |-> 1000, SIGMA_DENOM_X5000 |-> 5000]

(* DenominationToInteger(denom, denom_out, state): the switch; the default *)
(* branch scores DoS(100) and leaves denom_out as it was.                  *)
DenominationToInteger(d, prior) ==
    IF d \in DOMAIN DenominationToIntegerCases
    THEN Ok(DenominationToIntegerCases[d] * COIN) ELSE Fail(prior)

(* Mutant: the 50 * COIN case assigns SIGMA_DENOM_X100 (a copy-paste slip). *)
IntegerToDenominationCasesCopyPaste ==
    {<<1, "SIGMA_DENOM_X1">>, <<10, "SIGMA_DENOM_X10">>, <<50, "SIGMA_DENOM_X100">>,
     <<100, "SIGMA_DENOM_X100">>, <<500, "SIGMA_DENOM_X500">>,
     <<1000, "SIGMA_DENOM_X1000">>, <<5000, "SIGMA_DENOM_X5000">>}

(* The case labels of IntegerToDenomination's switch: case k * COIN:       *)
(* denom_out = the enumerator.  C++ case labels are distinct.              *)
IntegerToDenominationCases ==
    {<<1, "SIGMA_DENOM_X1">>, <<10, "SIGMA_DENOM_X10">>, <<50, "SIGMA_DENOM_X50">>,
     <<100, "SIGMA_DENOM_X100">>, <<500, "SIGMA_DENOM_X500">>,
     <<1000, "SIGMA_DENOM_X1000">>, <<5000, "SIGMA_DENOM_X5000">>}

(* IntegerToDenomination(value, denom_out, state): the case whose label    *)
(* equals the value, else the default branch.                               *)
IntegerToDenomination(v, prior) ==
    IF \E c \in IntegerToDenominationCases : c[1] * COIN = v
    THEN Ok((CHOOSE c \in IntegerToDenominationCases : c[1] * COIN = v)[2])
    ELSE Fail(prior)

(* StringToDenomination's if-chain, in order: if (str == s) denom_out = d. *)
StringToDenominationCases ==
    <<<<"1", "SIGMA_DENOM_X1">>, <<"10", "SIGMA_DENOM_X10">>, <<"50", "SIGMA_DENOM_X50">>,
      <<"100", "SIGMA_DENOM_X100">>, <<"500", "SIGMA_DENOM_X500">>,
      <<"1000", "SIGMA_DENOM_X1000">>, <<"5000", "SIGMA_DENOM_X5000">>>>

(* The first case of an if-chain whose test holds, or 0.                   *)
FirstCase(cases, x) == Seqs!SelectInSeq(cases, LAMBDA c : c[1] = x)

(* StringToDenomination(str, denom_out): the first branch taken, or false  *)
(* with denom_out untouched.                                                *)
StringToDenomination(str, prior) ==
    LET i == FirstCase(StringToDenominationCases, str) IN
    IF i # 0 THEN [ok |-> TRUE, out |-> StringToDenominationCases[i][2]]
    ELSE [ok |-> FALSE, out |-> prior]

(* DenominationToString's if-chain: if (denom == d) return s.              *)
DenominationToStringCases ==
    <<<<"SIGMA_DENOM_X1", "1">>, <<"SIGMA_DENOM_X10", "10">>, <<"SIGMA_DENOM_X50", "50">>,
      <<"SIGMA_DENOM_X100", "100">>, <<"SIGMA_DENOM_X500", "500">>,
      <<"SIGMA_DENOM_X1000", "1000">>, <<"SIGMA_DENOM_X5000", "5000">>>>

(* std::to_string(CoinDenomination)'s switch, a second label table.        *)
ToStringCases ==
    [SIGMA_DENOM_X1 |-> "1", SIGMA_DENOM_X10 |-> "10", SIGMA_DENOM_X50 |-> "50",
     SIGMA_DENOM_X100 |-> "100", SIGMA_DENOM_X500 |-> "500",
     SIGMA_DENOM_X1000 |-> "1000", SIGMA_DENOM_X5000 |-> "5000"]

(* DenominationToString throws ZerocoinException, std::to_string          *)
(* std::invalid_argument, past the last case.                              *)
Throws == "throws"
DenominationToString(d) ==
    LET i == FirstCase(DenominationToStringCases, d) IN
    IF i # 0 THEN DenominationToStringCases[i][2] ELSE Throws
ToString(d) == IF d \in DOMAIN ToStringCases THEN ToStringCases[d] ELSE Throws

(* GetAllDenoms: pushes the seven enumerators, largest first.              *)
GetAllDenoms ==
    <<"SIGMA_DENOM_X5000", "SIGMA_DENOM_X1000", "SIGMA_DENOM_X500",
      "SIGMA_DENOM_X100", "SIGMA_DENOM_X50", "SIGMA_DENOM_X10", "SIGMA_DENOM_X1">>

-----------------------------------------------------------------------------
LegalAmounts == {DenominationToIntegerCases[d] * COIN : d \in DOMAIN DenominationToIntegerCases}

(* The four conversions, each its own switch or if-chain, agree with each *)
(* other on every input (spec section 8): an amount converts iff it is a  *)
(* case label, and then back to itself; a denomination converts iff it is *)
(* an enumerator, to an amount that converts back to it, and both label   *)
(* functions print it with the same label, which StringToDenomination     *)
(* parses back to it; a parsed label prints as itself; the failing        *)
(* numeric conversions score DoS 100 and leave the out parameter alone;   *)
(* GetAllDenoms lists every enumerator once, strictly descending by amount. *)
ConversionLaws ==
    /\ \A v \in Amounts :
          LET r == IntegerToDenomination(v, NoCall) IN
          /\ r.ok <=> v \in LegalAmounts
          /\ r.ok => DenominationToInteger(r.out, NoCall) = Ok(v)
          /\ ~r.ok => r = Fail(NoCall)
    /\ \A d \in CoinDenomination :
          LET r == DenominationToInteger(d, NoCall) IN
          /\ r.ok <=> d \in Enumerators
          /\ ~r.ok => r = Fail(NoCall)
          /\ r.ok => /\ IntegerToDenomination(r.out, NoCall) = Ok(d)
                     /\ DenominationToString(d) = ToString(d)
                     /\ StringToDenomination(ToString(d), NoCall).out = d
          /\ ~r.ok => DenominationToString(d) = Throws /\ ToString(d) = Throws
    /\ \A str \in Labels :
          LET r == StringToDenomination(str, NoCall) IN
          r.ok => DenominationToString(r.out) = str
    /\ {GetAllDenoms[i] : i \in DOMAIN GetAllDenoms} = Enumerators
    /\ \A i \in 1..(Len(GetAllDenoms) - 1) :
          DenominationToInteger(GetAllDenoms[i], NoCall).out
            > DenominationToInteger(GetAllDenoms[i + 1], NoCall).out

=============================================================================
