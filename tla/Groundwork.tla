------------------------------ MODULE Groundwork ------------------------------
(***************************************************************************)
(* Facts about naturals and sequences that several proofs rest on: the     *)
(* least counterexample, by which what a recursive function on a range of  *)
(* naturals computes is proved (the fold of heads, a walk down the         *)
(* history), and what Append does to a sequence of no declared type.       *)
(***************************************************************************)
EXTENDS Naturals, Sequences, SequenceTheorems, WellFoundedInduction, TLAPS

\* A set of naturals that is not empty has a least element.
LEMMA LeastNatural ==
  ASSUME NEW T \in SUBSET Nat, T # {}
  PROVE  \E x \in T : \A y \in T : x <= y
<1>1. PICK x \in T : \A y \in T : ~(<<y, x>> \in OpToRel(<, Nat))
  BY NatLessThanWellFounded, WFMin
<1>2. ASSUME NEW y \in T
      PROVE  x <= y
  <2>1. y < x => <<y, x>> \in OpToRel(<, Nat)
    BY DEF OpToRel
  <2>2. ~(y < x)
    BY <1>1, <2>1
  <2> QED
    BY <2>2
<1> QED
  BY <1>2

\* A sequence, of whatever it holds.
IsList(s) == s \in Seq({s[i] : i \in 1 .. Len(s)})

\* Appending keeps a list and what it held.
LEMMA AppendToList ==
  ASSUME NEW s, IsList(s), NEW e
  PROVE  /\ IsList(Append(s, e)) /\ Len(s) \in Nat /\ Len(Append(s, e)) = Len(s) + 1
         /\ \A i \in 1 .. Len(s) : Append(s, e)[i] = s[i]
         /\ Append(s, e)[Len(s) + 1] = e
<1>. DEFINE S == {s[i] : i \in 1 .. Len(s)} \cup {e}
            a == Append(s, e)
<1>1. s \in Seq(S)
  BY DEF IsList
<1>. HIDE DEF S
<1>2. e \in S
  BY DEF S
<1>3. /\ a \in Seq(S) /\ Len(s) \in Nat /\ Len(a) = Len(s) + 1
      /\ \A i \in 1 .. Len(s) : a[i] = s[i]
      /\ a[Len(s) + 1] = e
  BY <1>1, <1>2, AppendProperties, LenProperties
<1>. HIDE DEF a
<1>4. a \in Seq({a[i] : i \in 1 .. Len(a)})
  <2>1. a \in [1 .. Len(a) -> S]
    BY <1>3, LenProperties
  <2>2. a \in [1 .. Len(a) -> {a[i] : i \in 1 .. Len(a)}] /\ Len(a) \in Nat
    BY <1>3, <2>1
  <2>. QED BY <2>2, SeqDef
<1>. QED BY <1>3, <1>4 DEF IsList, a
===============================================================================
