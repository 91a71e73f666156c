----------------------------- MODULE Iteration -----------------------------
(***************************************************************************)
(* Lemmas about what is done a number of times, for the loops the modules  *)
(* write as recursive functions.  A loop is a function whose value at k is *)
(* the state after k rounds, each round applied to the value at k - 1.     *)
(*                                                                         *)
(* Induction is stated with sets in the place of predicates: every set of  *)
(* naturals that has a member has a least one.                             *)
(***************************************************************************)
EXTENDS Integers, WellFoundedInduction, TLAPS

NatLess == {pair \in Nat \X Nat : pair[1] < pair[2]}

LEMMA LessIsWellFounded == IsWellFoundedOn(NatLess, Nat)
BY NatLessThanWellFounded DEF OpToRel, NatLess

LEMMA NatReached ==
    ASSUME NEW S,
           0 \in S,
           \A n \in Nat : n \in S => n + 1 \in S
    PROVE  Nat \subseteq S
<1> DEFINE Missed == Nat \ S
<1> SUFFICES ASSUME Missed # {} PROVE FALSE
    OBVIOUS
<1>1. PICK least \in Missed : \A m \in Missed : <<m, least>> \notin NatLess
    BY LessIsWellFounded, WFMin
<1>2. least \in Nat /\ least # 0 /\ least \notin S
    BY <1>1
<1>3. least - 1 \in Nat /\ <<least - 1, least>> \in NatLess
    BY <1>2 DEF NatLess
<1>4. least - 1 \in S
    BY <1>1, <1>3
<1> QED
    BY <1>2, <1>3, <1>4

\* What holds before a loop and is kept by each round holds after each round.
LEMMA LoopKeeps ==
    ASSUME NEW N \in Nat, NEW S, NEW loop,
           loop[0] \in S,
           \A k \in 1 .. N : loop[k - 1] \in S => loop[k] \in S
    PROVE  \A k \in 0 .. N : loop[k] \in S
<1> DEFINE R == {n \in Nat : n \in 0 .. N => loop[n] \in S}
<1>1. 0 \in R
    OBVIOUS
<1>2. ASSUME NEW n \in Nat, n \in R
      PROVE  n + 1 \in R
    <2> SUFFICES ASSUME n + 1 \in 0 .. N
                 PROVE  loop[n + 1] \in S
        OBVIOUS
    <2>1. n \in 0 .. N /\ n + 1 \in 1 .. N /\ (n + 1) - 1 = n
        OBVIOUS
    <2> QED
        BY <1>2, <2>1
<1> HIDE DEF R
<1>3. Nat \subseteq R
    BY <1>1, <1>2, NatReached
<1> QED
    BY <1>3 DEF R

\* What each of N rounds makes of a state.
Rounds(N, S) == [1 .. N -> [S -> S]]

\* A loop of any number of rounds can be run: there is a function that holds
\* the state after each round.
LEMMA LoopExists ==
    ASSUME NEW N \in Nat, NEW S, NEW start \in S,
           NEW round \in Rounds(N, S)
    PROVE  \E loop \in [0 .. N -> S] :
              /\ loop[0] = start
              /\ \A k \in 1 .. N : loop[k] = round[k][loop[k - 1]]
<1> DEFINE Runs(n, loop) == /\ loop[0] = start
                            /\ \A k \in 1 .. n : loop[k] = round[k][loop[k - 1]]
           R == {n \in Nat : n <= N => \E loop \in [0 .. n -> S] : Runs(n, loop)}
<1>1. 0 \in R
    <2> DEFINE first == [k \in 0 .. 0 |-> start]
    <2>1. first \in [0 .. 0 -> S] /\ Runs(0, first)
        OBVIOUS
    <2> HIDE DEF Runs, first
    <2> QED
        BY <2>1
<1>2. ASSUME NEW n \in Nat, n \in R
      PROVE  n + 1 \in R
    <2> HIDE DEF Runs
    <2> SUFFICES ASSUME n + 1 <= N
                 PROVE  \E loop \in [0 .. n + 1 -> S] : Runs(n + 1, loop)
        OBVIOUS
    <2>1. PICK loop \in [0 .. n -> S] : Runs(n, loop)
        BY <1>2
    <2> DEFINE last == round[n + 1][loop[n]]
               longer == [k \in 0 .. n + 1 |-> IF k = n + 1 THEN last ELSE loop[k]]
    <2>2. n \in 0 .. n /\ n + 1 \in 1 .. N
        OBVIOUS
    <2>3. last \in S
        <3>1. loop[n] \in S /\ round[n + 1] \in [S -> S]
            BY <2>1, <2>2 DEF Rounds
        <3> QED
            BY <3>1
    <2> HIDE DEF last
    <2>4. longer \in [0 .. n + 1 -> S]
        BY <2>1, <2>3
    <2>5. longer[0] = start
        <3>1. 0 \in 0 .. n + 1 /\ 0 # n + 1
            OBVIOUS
        <3> QED
            BY <2>1, <3>1 DEF Runs
    <2>6. ASSUME NEW k \in 1 .. n + 1
          PROVE  longer[k] = round[k][longer[k - 1]]
        <3>1. k - 1 \in 0 .. n /\ k - 1 # n + 1 /\ k \in 0 .. n + 1
              /\ k - 1 \in 0 .. n + 1
            OBVIOUS
        <3>2. longer[k - 1] = loop[k - 1]
            BY <3>1
        <3>3. CASE k = n + 1
            <4>1. longer[k] = last /\ k - 1 = n
                BY <3>3, <3>1
            <4> HIDE DEF longer
            <4> QED
                BY <3>2, <3>3, <4>1 DEF last
        <3>4. CASE k # n + 1
            <4>1. k \in 1 .. n
                BY <3>4
            <4>2. longer[k] = loop[k]
                BY <3>4, <3>1
            <4> HIDE DEF longer
            <4> QED
                BY <2>1, <3>2, <4>1, <4>2 DEF Runs
        <3> QED
            BY <3>3, <3>4
    <2> HIDE DEF longer
    <2>7. Runs(n + 1, longer)
        BY <2>5, <2>6 DEF Runs
    <2> QED
        BY <2>4, <2>7
<1> HIDE DEF R
<1>3. Nat \subseteq R
    BY <1>1, <1>2, NatReached
<1> QED
    <2> HIDE DEF Runs
    <2>1. \E loop \in [0 .. N -> S] : Runs(N, loop)
        BY <1>3 DEF R
    <2> QED
        BY <2>1 DEF Runs

============================================================================
