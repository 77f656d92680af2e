-------------------------- MODULE GestureArenaProofs --------------------------
(***************************************************************************)
(* What holds of a gesture arena for any number of recognizers, whatever   *)
(* their callbacks do before the arena goes on.                            *)
(***************************************************************************)
EXTENDS GestureArena, FiniteSetTheorems, SequenceTheorems, TLAPS

USE ArenaAssumption

Undecided == isOpen \/ inTable

\* No member has entered twice.
EnteredTwiceIsOnce ==
    /\ members \in Seq(Recognizers)
    /\ \A i, j \in 1 .. Len(members) : members[i] = members[j] => i = j

CountersTyped == resuming \in Nat /\ microtasks \in Nat

Heard == {<<>>, <<"accept">>, <<"reject">>}

VerdictsTyped == verdicts \in [Recognizers -> Heard]

\* Before the decision nobody has won, and nobody who is in the arena has heard.
NobodyHeard ==
    Undecided => \A m \in Recognizers :
        /\ verdicts[m] # <<"accept">>
        /\ m \in Entered => verdicts[m] = <<>>

OneWinner ==
    \A m, n \in Recognizers :
        verdicts[m] = <<"accept">> /\ verdicts[n] = <<"accept">> => m = n

AllHeard == ~ Undecided => \A m \in Entered : verdicts[m] # <<>>

\* A member that is told leaves the arena by its own resolution, or with the arena.
TellsOnlyMembers ==
    \A m \in Recognizers : verdicts[m] # <<>> => m \in Entered \/ m \in resolved

\* While the arena is open nobody is in it but those of its record in the table, and
\* nothing is put off.
OpenIsFresh ==
    isOpen => /\ inTable \/ members = <<>>
              /\ microtasks = 0
              /\ ~ hasPendingSweep
              /\ ~ pointerUp

\* The eager winner cannot be rejected any more, and nothing is left to resume once
\* the arena that it won, or is alone in, is closed.
EagerWins ==
    eagerWinner # nobody =>
        /\ eagerWinner \in Entered /\ eagerWinner \in resolved
        /\ ~ isOpen => resuming = 0 /\ (inTable => Len(members) = 1)

\* The default winner is alone, or has just admitted defeat.
DefaultIsAlone ==
    microtasks > 0 /\ inTable => Len(members) = 1 \/ (members = <<>> /\ resuming > 0)

VerdictsInv == VerdictsTyped /\ NobodyHeard /\ OneWinner /\ AllHeard /\ TellsOnlyMembers

ArenaInv ==
    /\ EnteredTwiceIsOnce
    /\ CountersTyped
    /\ VerdictsInv
    /\ OpenIsFresh /\ EagerWins /\ DefaultIsAlone
    /\ SweptUnlessHeld

USE DEF Undecided

-----------------------------------------------------------------------------
(* The members *)

LEMMA EnteredIs == members \in Seq(Recognizers) =>
    /\ Entered = {members[i] : i \in 1 .. Len(members)}
    /\ Entered \subseteq Recognizers
BY LenProperties DEF Entered

\* A member is taken out, and the others stay.
LEMMA WithoutMember ==
    ASSUME EnteredTwiceIsOnce, NEW m \in Entered, members' = Without(m)
    PROVE  /\ EnteredTwiceIsOnce'
           /\ Entered' = Entered \ {m}
           /\ Len(members') = Len(members) - 1
           /\ Len(members) \in Nat \ {0}
<1>. DEFINE i == CHOOSE j \in DOMAIN members : members[j] = m
<1>1. /\ members \in Seq(Recognizers) /\ Len(members) \in Nat
      /\ DOMAIN members = 1 .. Len(members)
      /\ \A j \in 1 .. Len(members) : members[j] \in Recognizers
  BY LenProperties DEF EnteredTwiceIsOnce
<1>2. \E j \in DOMAIN members : members[j] = m
  BY DEF Entered
<1>3. i \in 1 .. Len(members) /\ members[i] = m
  BY <1>1, <1>2
<1>4. members' = [j \in 1 .. Len(members) - 1 |-> IF j < i THEN members[j] ELSE members[j + 1]]
  BY DEF Without
<1>. HIDE DEF i
<1>5. /\ members' \in Seq(Recognizers) /\ Len(members') = Len(members) - 1
      /\ DOMAIN members' = 1 .. Len(members) - 1
  <2>1. Len(members) - 1 \in Nat
    BY <1>1, <1>3
  <2>2. \A j \in 1 .. Len(members) - 1 :
            (IF j < i THEN members[j] ELSE members[j + 1]) \in Recognizers
    BY <1>1, <1>3
  <2>. QED BY <1>4, <2>1, <2>2
<1>6. \A j \in 1 .. Len(members) - 1 :
          members'[j] = members[IF j < i THEN j ELSE j + 1]
          /\ (IF j < i THEN j ELSE j + 1) \in (1 .. Len(members)) \ {i}
  BY <1>1, <1>3, <1>4
<1>7. EnteredTwiceIsOnce'
  <2>1. ASSUME NEW j \in 1 .. Len(members) - 1, NEW k \in 1 .. Len(members) - 1,
               members'[j] = members'[k]
        PROVE  j = k
    <3>1. (IF j < i THEN j ELSE j + 1) = (IF k < i THEN k ELSE k + 1)
      BY <1>6, <2>1 DEF EnteredTwiceIsOnce
    <3>. QED BY <1>1, <1>3, <3>1
  <2>. QED BY <1>5, <2>1 DEF EnteredTwiceIsOnce
<1>8. \A j \in 1 .. Len(members) : j # i => members[j] # m
  BY <1>3 DEF EnteredTwiceIsOnce
<1>9. Entered' \subseteq Entered \ {m}
  BY <1>1, <1>5, <1>6, <1>8 DEF Entered
<1>10. Entered \ {m} \subseteq Entered'
  <2>1. ASSUME NEW j \in 1 .. Len(members), j # i PROVE members[j] \in Entered'
    <3>1. CASE j < i
      <4>1. j \in 1 .. Len(members) - 1 /\ members'[j] = members[j]
        BY <1>1, <1>3, <1>4, <3>1
      <4>. QED BY <1>5, <4>1 DEF Entered
    <3>2. CASE j > i
      <4>1. j - 1 \in 1 .. Len(members) - 1 /\ ~ (j - 1 < i) /\ j - 1 + 1 = j
        BY <1>1, <1>3, <3>2
      <4>2. members'[j - 1] = members[j]
        BY <1>4, <4>1
      <4>. QED BY <1>5, <4>1, <4>2 DEF Entered
    <3>. QED BY <1>1, <1>3, <2>1, <3>1, <3>2
  <2>. QED BY <1>1, <1>3, <2>1 DEF Entered
<1>. QED BY <1>1, <1>3, <1>5, <1>7, <1>9, <1>10

LEMMA AppendedMember ==
    ASSUME EnteredTwiceIsOnce, NEW m \in Recognizers, m \notin Entered,
           members' = Append(members, m)
    PROVE  EnteredTwiceIsOnce' /\ Entered' = Entered \cup {m}
<1>1. /\ members \in Seq(Recognizers) /\ members' \in Seq(Recognizers)
      /\ Len(members) \in Nat /\ Len(members') = Len(members) + 1
      /\ DOMAIN members = 1 .. Len(members) /\ DOMAIN members' = 1 .. Len(members) + 1
      /\ \A j \in 1 .. Len(members) : members'[j] = members[j]
      /\ members'[Len(members) + 1] = m
  BY AppendProperties, LenProperties DEF EnteredTwiceIsOnce
<1>2. EnteredTwiceIsOnce'
  BY <1>1 DEF EnteredTwiceIsOnce, Entered
<1>3. Entered' = Entered \cup {m}
  BY <1>1 DEF Entered
<1>. QED BY <1>2, <1>3

LEMMA HeadEntered ==
    ASSUME members \in Seq(Recognizers), members # <<>>
    PROVE  Head(members) \in Entered /\ Len(members) \in Nat \ {0}
           /\ (Len(members) = 1 => Entered = {Head(members)})
<1>1. Len(members) \in Nat \ {0} /\ DOMAIN members = 1 .. Len(members)
      /\ Head(members) = members[1]
  BY LenProperties, EmptySeq
<1>. QED BY <1>1 DEF Entered

LEMMA EmptyEntered == members = <<>> => Entered = {}
BY DEF Entered

-----------------------------------------------------------------------------
(* The decision *)

\* The arena is removed from the table and everybody in it is told.
LEMMA Decided ==
    ASSUME members \in Seq(Recognizers), VerdictsInv, Undecided, ~ Undecided',
           NEW m \in Entered, Announce({m}, Entered),
           UNCHANGED members, resolved \subseteq resolved'
    PROVE  VerdictsInv'
<1>1. Entered' = Entered /\ Entered \subseteq Recognizers
  BY EnteredIs DEF Entered
<1>2. ASSUME NEW n \in Recognizers
      PROVE  verdicts'[n] = IF n = m THEN <<"accept">>
                            ELSE IF n \in Entered THEN <<"reject">> ELSE verdicts[n]
  <2>1. n = m \/ n \in Entered => verdicts[n] = <<>>
    BY DEF VerdictsInv, NobodyHeard
  <2>2. Append(<<>>, "accept") = <<"accept">> /\ Append(<<>>, "reject") = <<"reject">>
    OBVIOUS
  <2>. QED BY <2>1, <2>2 DEF Announce
<1>3. VerdictsTyped'
  <2>1. verdicts' = [n \in Recognizers |-> verdicts'[n]]
    BY DEF Announce
  <2>. QED BY <1>2, <2>1 DEF VerdictsInv, VerdictsTyped, Heard
<1>4. OneWinner' /\ AllHeard'
  BY <1>1, <1>2 DEF VerdictsInv, NobodyHeard, OneWinner, AllHeard
<1>5. NobodyHeard' /\ TellsOnlyMembers'
  BY <1>1, <1>2 DEF VerdictsInv, NobodyHeard, TellsOnlyMembers
<1>. QED BY <1>3, <1>4, <1>5 DEF VerdictsInv

\* The same of an arena with one member, who wins.
LEMMA DecidedByDefault ==
    ASSUME members \in Seq(Recognizers), VerdictsInv, Undecided, ~ Undecided',
           NEW m, Entered = {m}, Announce({m}, {}), UNCHANGED <<members, resolved>>
    PROVE  VerdictsInv'
<1>1. m \in Recognizers
  BY EnteredIs
<1>2. Announce({m}, Entered)
  BY <1>1 DEF Announce
<1>. QED BY <1>2, Decided

\* The arena ends with nobody in it.
LEMMA DecidedOfNobody ==
    ASSUME VerdictsInv, ~ Undecided', members = <<>>, UNCHANGED <<members, resolved, verdicts>>
    PROVE  VerdictsInv'
BY EmptyEntered DEF VerdictsInv, VerdictsTyped, NobodyHeard, OneWinner, AllHeard,
                    TellsOnlyMembers, Entered

LEMMA SameVerdicts ==
    ASSUME VerdictsInv, Undecided' = Undecided, UNCHANGED <<members, verdicts>>,
           resolved \subseteq resolved'
    PROVE  VerdictsInv'
BY DEF VerdictsInv, VerdictsTyped, NobodyHeard, OneWinner, AllHeard, TellsOnlyMembers, Entered

-----------------------------------------------------------------------------
(* The steps *)

USE DEF CountersTyped

LEMMA AddKeepsArenaInv ==
    ASSUME ArenaInv, NEW m \in Recognizers, AddMember(m)
    PROVE  ArenaInv'
<1>1. EnteredTwiceIsOnce' /\ Entered' = Entered \cup {m}
  BY AppendedMember DEF ArenaInv, AddMember
<1>2. verdicts[m] = <<>>
  BY DEF ArenaInv, VerdictsInv, TellsOnlyMembers, AddMember
<1>3. VerdictsInv'
  BY <1>1, <1>2 DEF ArenaInv, VerdictsInv, VerdictsTyped, NobodyHeard, OneWinner, AllHeard,
                    TellsOnlyMembers, AddMember
<1>4. CountersTyped' /\ OpenIsFresh' /\ EagerWins' /\ DefaultIsAlone' /\ SweptUnlessHeld'
  BY <1>1 DEF ArenaInv, AddMember, OpenIsFresh, EagerWins, DefaultIsAlone, SweptUnlessHeld
<1>. QED BY <1>1, <1>3, <1>4 DEF ArenaInv

\* An open arena notes the first claim; a closed one is decided by it.
LEMMA AcceptKeepsArenaInv ==
    ASSUME ArenaInv, NEW m \in Recognizers, AcceptMember(m)
    PROVE  ArenaInv'
<1>1. members \in Seq(Recognizers) /\ EnteredTwiceIsOnce'
  BY DEF ArenaInv, EnteredTwiceIsOnce, AcceptMember
<1>2. VerdictsInv'
  <2>1. CASE isOpen
    BY <2>1, SameVerdicts DEF ArenaInv, AcceptMember
  <2>2. CASE ~ isOpen
    BY <1>1, <2>2, Decided DEF ArenaInv, AcceptMember, ResolveInFavorOf
  <2>. QED BY <2>1, <2>2
<1>3. Entered' = Entered
  BY DEF AcceptMember, Entered
<1>4. OpenIsFresh' /\ DefaultIsAlone' /\ SweptUnlessHeld'
  BY DEF ArenaInv, AcceptMember, ResolveInFavorOf, OpenIsFresh, DefaultIsAlone, SweptUnlessHeld
<1>5. EagerWins'
  BY <1>3 DEF ArenaInv, AcceptMember, ResolveInFavorOf, EagerWins
<1>. QED BY <1>1, <1>2, <1>4, <1>5 DEF ArenaInv, AcceptMember

LEMMA RejectKeepsArenaInv ==
    ASSUME ArenaInv, NEW m \in Recognizers, RejectMember(m)
    PROVE  ArenaInv'
<1>1. /\ EnteredTwiceIsOnce' /\ Entered' = Entered \ {m}
      /\ Len(members') = Len(members) - 1 /\ Len(members) \in Nat \ {0}
  BY WithoutMember DEF ArenaInv, RejectMember
<1>2. /\ verdicts[m] = <<>> /\ verdicts'[m] = <<"reject">>
      /\ \A n \in Recognizers : n # m => verdicts'[n] = verdicts[n]
  <2>1. verdicts[m] = <<>>
    BY DEF ArenaInv, VerdictsInv, NobodyHeard, RejectMember
  <2>2. Append(<<>>, "reject") = <<"reject">>
    OBVIOUS
  <2>. QED BY <2>1, <2>2 DEF RejectMember, Announce
<1>3. VerdictsTyped'
  <2>1. verdicts' = [n \in Recognizers |-> verdicts'[n]]
    BY DEF RejectMember, Announce
  <2>. QED BY <1>2, <2>1 DEF ArenaInv, VerdictsInv, VerdictsTyped, Heard
<1>4. VerdictsInv'
  BY <1>1, <1>2, <1>3 DEF ArenaInv, VerdictsInv, NobodyHeard, OneWinner, AllHeard,
                          TellsOnlyMembers, RejectMember
<1>5. members # <<>> /\ members \in Seq(Recognizers) /\ members' \in Seq(Recognizers)
  BY <1>1, EmptySeq DEF ArenaInv, EnteredTwiceIsOnce
<1>6. EagerWins'
  <2>1. ASSUME eagerWinner # nobody
        PROVE  /\ m # eagerWinner /\ eagerWinner \in Entered'
               /\ ~ isOpen => FALSE
    <3>1. m # eagerWinner /\ eagerWinner \in Entered'
      BY <1>1, <2>1 DEF ArenaInv, EagerWins, RejectMember
    <3>2. ~ isOpen => Len(members) = 1
      BY <2>1 DEF ArenaInv, EagerWins, RejectMember
    <3>3. ~ isOpen => Entered = {Head(members)}
      BY <1>5, <3>2, HeadEntered
    <3>. QED BY <2>1, <3>1, <3>3 DEF ArenaInv, EagerWins, RejectMember
  <2>. QED BY <2>1 DEF ArenaInv, EagerWins, RejectMember
<1>7. DefaultIsAlone'
  <2>1. ASSUME microtasks > 0 PROVE members' = <<>>
    <3>1. Len(members) = 1
      BY <1>5, <2>1 DEF ArenaInv, DefaultIsAlone, RejectMember
    <3>. QED BY <1>1, <1>5, <3>1, EmptySeq
  <2>. QED BY <2>1 DEF ArenaInv, DefaultIsAlone, RejectMember
<1>8. CountersTyped' /\ OpenIsFresh' /\ SweptUnlessHeld'
  BY DEF ArenaInv, RejectMember, OpenIsFresh, SweptUnlessHeld
<1>. QED BY <1>1, <1>4, <1>6, <1>7, <1>8 DEF ArenaInv

\* The arena closes, or goes on after a rejection.
LEMMA TryKeepsArenaInv ==
    ASSUME ArenaInv, CloseArena \/ ResumeReject
    PROVE  ArenaInv'
<1>1. /\ members \in Seq(Recognizers) /\ EnteredTwiceIsOnce' /\ Entered' = Entered
      /\ UNCHANGED <<members, resolved, eagerWinner, isHeld, hasPendingSweep, pointerUp>>
  BY DEF ArenaInv, EnteredTwiceIsOnce, CloseArena, ResumeReject, Entered
<1>2. members = <<>> \/ (members # <<>> /\ Len(members) \in Nat \ {0})
  BY <1>1, EmptySeq
<1>3. SweptUnlessHeld' /\ OpenIsFresh'
  BY DEF ArenaInv, CloseArena, ResumeReject, TryToResolveArena, ResolveInFavorOf,
         SweptUnlessHeld, OpenIsFresh
<1>4. CASE CloseArena
  <2>1. isOpen /\ ~ isOpen' /\ resuming = 0 /\ resuming' = 0 /\ microtasks = 0
    BY <1>4 DEF ArenaInv, CloseArena, OpenIsFresh
  <2>2. CASE ~ inTable
    <3>1. members = <<>> /\ UNCHANGED <<inTable, verdicts, microtasks>>
      BY <1>4, <2>1, <2>2 DEF ArenaInv, CloseArena, OpenIsFresh
    <3>2. VerdictsInv'
      BY <1>1, <2>1, <2>2, <3>1, DecidedOfNobody DEF ArenaInv
    <3>3. EagerWins' /\ DefaultIsAlone' /\ CountersTyped'
      BY <1>1, <2>1, <2>2, <3>1 DEF ArenaInv, EagerWins, DefaultIsAlone
    <3>. QED BY <1>1, <1>3, <3>2, <3>3 DEF ArenaInv
  <2>3. CASE inTable /\ Len(members) = 1 /\ microtasks' = microtasks + 1
             /\ UNCHANGED <<inTable, verdicts>>
    <3>1. VerdictsInv'
      BY <1>1, <2>1, <2>3, SameVerdicts DEF ArenaInv
    <3>2. EagerWins' /\ DefaultIsAlone' /\ CountersTyped'
      BY <1>1, <2>1, <2>3 DEF ArenaInv, EagerWins, DefaultIsAlone
    <3>. QED BY <1>1, <1>3, <3>1, <3>2 DEF ArenaInv
  <2>4. CASE inTable /\ members = <<>> /\ ~ inTable' /\ UNCHANGED <<microtasks, verdicts>>
    <3>1. VerdictsInv'
      BY <1>1, <2>1, <2>4, DecidedOfNobody DEF ArenaInv
    <3>2. EagerWins' /\ DefaultIsAlone' /\ CountersTyped'
      BY <1>1, <2>1, <2>4 DEF ArenaInv, EagerWins, DefaultIsAlone
    <3>. QED BY <1>1, <1>3, <3>1, <3>2 DEF ArenaInv
  <2>5. CASE inTable /\ Len(members) > 1 /\ eagerWinner = nobody
             /\ UNCHANGED <<inTable, verdicts, microtasks>>
    <3>1. VerdictsInv'
      BY <1>1, <2>1, <2>5, SameVerdicts DEF ArenaInv
    <3>2. EagerWins' /\ DefaultIsAlone' /\ CountersTyped'
      BY <1>1, <2>1, <2>5 DEF ArenaInv, EagerWins, DefaultIsAlone
    <3>. QED BY <1>1, <1>3, <3>1, <3>2 DEF ArenaInv
  <2>6. CASE eagerWinner # nobody /\ ResolveInFavorOf(eagerWinner) /\ UNCHANGED microtasks
    <3>1. VerdictsInv'
      BY <1>1, <2>1, <2>6, Decided DEF ArenaInv, EagerWins, ResolveInFavorOf
    <3>2. EagerWins' /\ DefaultIsAlone' /\ CountersTyped'
      BY <1>1, <2>1, <2>6 DEF ArenaInv, EagerWins, DefaultIsAlone, ResolveInFavorOf
    <3>. QED BY <1>1, <1>3, <3>1, <3>2 DEF ArenaInv
  <2>. QED BY <1>4, <2>2, <2>3, <2>4, <2>5, <2>6 DEF CloseArena, TryToResolveArena
<1>5. CASE ResumeReject
  <2>1. resuming > 0 /\ resuming' = resuming - 1 /\ isOpen' = isOpen
    BY <1>5 DEF ResumeReject
  <2>2. CASE isOpen
    <3>1. UNCHANGED <<inTable, verdicts, microtasks>>
      BY <1>5, <2>2 DEF ResumeReject
    <3>2. VerdictsInv'
      BY <1>1, <2>1, <3>1, SameVerdicts DEF ArenaInv
    <3>3. EagerWins' /\ DefaultIsAlone' /\ CountersTyped'
      BY <1>1, <2>1, <2>2, <3>1 DEF ArenaInv, EagerWins, DefaultIsAlone, OpenIsFresh
    <3>. QED BY <1>1, <1>3, <3>2, <3>3 DEF ArenaInv
  <2>3. CASE ~ isOpen
    <3>1. eagerWinner = nobody
      BY <2>1, <2>3 DEF ArenaInv, EagerWins
    <3>2. EagerWins'
      BY <1>1, <3>1 DEF EagerWins
    <3>3. CASE Len(members) = 1 /\ microtasks' = microtasks + 1 /\ UNCHANGED <<inTable, verdicts>>
      <4>1. VerdictsInv'
        BY <1>1, <2>1, <3>3, SameVerdicts DEF ArenaInv
      <4>2. DefaultIsAlone' /\ CountersTyped'
        BY <1>1, <2>1, <3>3 DEF ArenaInv, DefaultIsAlone
      <4>. QED BY <1>1, <1>3, <3>2, <4>1, <4>2 DEF ArenaInv
    <3>4. CASE members = <<>> /\ ~ inTable' /\ UNCHANGED <<microtasks, verdicts>>
      <4>1. VerdictsInv'
        BY <1>1, <2>1, <2>3, <3>4, DecidedOfNobody DEF ArenaInv
      <4>2. DefaultIsAlone' /\ CountersTyped'
        BY <1>1, <2>1, <3>4 DEF ArenaInv, DefaultIsAlone
      <4>. QED BY <1>1, <1>3, <3>2, <4>1, <4>2 DEF ArenaInv
    <3>5. CASE Len(members) > 1 /\ UNCHANGED <<inTable, verdicts, microtasks>>
      <4>1. VerdictsInv'
        BY <1>1, <2>1, <3>5, SameVerdicts DEF ArenaInv
      <4>2. members # <<>>
        BY <3>5, EmptySeq
      <4>3. DefaultIsAlone' /\ CountersTyped'
        BY <1>1, <2>1, <3>5, <4>2 DEF ArenaInv, DefaultIsAlone
      <4>. QED BY <1>1, <1>3, <3>2, <4>1, <4>3 DEF ArenaInv
    <3>. QED BY <1>5, <2>3, <3>1, <3>3, <3>4, <3>5 DEF ResumeReject, TryToResolveArena
  <2>. QED BY <2>2, <2>3
<1>. QED BY <1>4, <1>5

\* A sweep that goes through ends the arena, one that is put off only marks it.
LEMMA SweepKeepsVerdicts ==
    ASSUME members \in Seq(Recognizers), VerdictsInv, inTable, ~ isOpen, ~ isOpen',
           UNCHANGED <<members, resolved>>, NEW held, SweepInTable(held)
    PROVE  VerdictsInv'
<1>1. CASE held
  BY <1>1, SameVerdicts DEF SweepInTable
<1>2. CASE ~ held /\ members = <<>>
  BY <1>2, DecidedOfNobody DEF SweepInTable
<1>3. CASE ~ held /\ members # <<>>
  BY <1>3, HeadEntered, Decided DEF SweepInTable
<1>. QED BY <1>1, <1>2, <1>3

LEMMA SweepKeepsArenaInv ==
    ASSUME ArenaInv, Sweep \/ Hold \/ Release
    PROVE  ArenaInv'
<1>1. /\ members \in Seq(Recognizers) /\ EnteredTwiceIsOnce' /\ Entered' = Entered
      /\ UNCHANGED <<members, resolved, eagerWinner, isOpen, resuming, microtasks>>
  BY DEF ArenaInv, EnteredTwiceIsOnce, Sweep, Hold, Release, Entered
<1>2. VerdictsInv'
  <2>1. CASE UNCHANGED <<inTable, verdicts>>
    BY <1>1, <2>1, SameVerdicts DEF ArenaInv
  <2>2. CASE Sweep /\ inTable
    BY <1>1, <2>2, SweepKeepsVerdicts DEF ArenaInv, Sweep
  <2>3. CASE Release /\ hasPendingSweep
    <3>1. ~ isOpen
      BY <2>3 DEF ArenaInv, OpenIsFresh
    <3>2. SweepInTable(FALSE) /\ inTable /\ ~ isOpen' /\ UNCHANGED <<members, resolved>>
      BY <1>1, <2>3, <3>1 DEF Release, SweepInTable
    <3>. QED BY <1>1, <3>1, <3>2, SweepKeepsVerdicts DEF ArenaInv
  <2>. QED BY <2>1, <2>2, <2>3 DEF Sweep, Hold, Release
<1>3. inTable' => inTable
  BY DEF Sweep, Hold, Release, SweepInTable
<1>4. OpenIsFresh'
  BY <1>1 DEF ArenaInv, OpenIsFresh, Sweep, Hold, Release, SweepInTable
<1>5. EagerWins' /\ DefaultIsAlone'
  BY <1>1, <1>3 DEF ArenaInv, EagerWins, DefaultIsAlone
<1>6. SweptUnlessHeld'
  BY DEF ArenaInv, SweptUnlessHeld, Sweep, Hold, Release, SweepInTable
<1>. QED BY <1>1, <1>2, <1>4, <1>5, <1>6 DEF ArenaInv

\* The member that wins by default is the only one left.
LEMMA DefaultKeepsArenaInv ==
    ASSUME ArenaInv, ResolveByDefault
    PROVE  ArenaInv'
<1>1. /\ members \in Seq(Recognizers) /\ EnteredTwiceIsOnce' /\ Entered' = Entered
      /\ UNCHANGED <<members, resolved, eagerWinner, isOpen, resuming, isHeld, hasPendingSweep,
                     pointerUp>>
      /\ microtasks' = microtasks - 1 /\ microtasks > 0 /\ resuming = 0
  BY DEF ArenaInv, EnteredTwiceIsOnce, ResolveByDefault, Entered
<1>2. ~ isOpen
  BY <1>1 DEF ArenaInv, OpenIsFresh
<1>3. CASE ~ inTable
  <2>1. UNCHANGED <<inTable, verdicts>>
    BY <1>3 DEF ResolveByDefault
  <2>2. VerdictsInv'
    BY <1>1, <2>1, SameVerdicts DEF ArenaInv
  <2>. QED BY <1>1, <1>2, <1>3, <2>1, <2>2
           DEF ArenaInv, OpenIsFresh, EagerWins, DefaultIsAlone, SweptUnlessHeld
<1>4. CASE inTable
  <2>1. Len(members) = 1
    BY <1>1, <1>4 DEF ArenaInv, DefaultIsAlone
  <2>2. Entered = {Head(members)}
    BY <1>1, <2>1, HeadEntered, EmptySeq
  <2>3. ~ inTable' /\ Announce({Head(members)}, {})
    BY <1>4 DEF ResolveByDefault
  <2>4. VerdictsInv'
    BY <1>1, <1>2, <1>4, <2>2, <2>3, DecidedByDefault DEF ArenaInv
  <2>. QED BY <1>1, <1>2, <2>3, <2>4
           DEF ArenaInv, OpenIsFresh, EagerWins, DefaultIsAlone, SweptUnlessHeld
<1>. QED BY <1>3, <1>4

LEMMA ArenaInvInit == ArenaInit => ArenaInv
<1>. SUFFICES ASSUME ArenaInit PROVE ArenaInv
  OBVIOUS
<1>1. members = <<>> /\ <<>> \in Seq(Recognizers) /\ Len(members) = 0 /\ Entered = {}
  BY EmptyEntered, EmptySeq DEF ArenaInit
<1>2. EnteredTwiceIsOnce
  BY <1>1 DEF EnteredTwiceIsOnce
<1>3. VerdictsInv
  BY <1>1 DEF ArenaInit, VerdictsInv, VerdictsTyped, Heard, NobodyHeard, OneWinner, AllHeard,
              TellsOnlyMembers
<1>. QED BY <1>1, <1>2, <1>3
         DEF ArenaInit, ArenaInv, OpenIsFresh, EagerWins, DefaultIsAlone, SweptUnlessHeld

LEMMA ArenaInvStep == ArenaInv /\ [ArenaNext]_arenaVars => ArenaInv'
<1>. SUFFICES ASSUME ArenaInv, [ArenaNext]_arenaVars PROVE ArenaInv'
  OBVIOUS
<1>1. CASE ArenaNext
  BY <1>1, AddKeepsArenaInv, AcceptKeepsArenaInv, RejectKeepsArenaInv, TryKeepsArenaInv,
     SweepKeepsArenaInv, DefaultKeepsArenaInv DEF ArenaNext
<1>2. CASE UNCHANGED arenaVars
  BY <1>2 DEF arenaVars, ArenaInv, EnteredTwiceIsOnce, VerdictsInv, VerdictsTyped, Heard,
              NobodyHeard, OneWinner, AllHeard, TellsOnlyMembers, OpenIsFresh, EagerWins,
              DefaultIsAlone, SweptUnlessHeld, Entered
<1>. QED BY <1>1, <1>2

LEMMA ArenaInvAlways == ArenaSpec => []ArenaInv
BY ArenaInvInit, ArenaInvStep, PTL DEF ArenaSpec

-----------------------------------------------------------------------------
(* Results *)

LEMMA VerdictsAreSingle == ArenaInv => OneVerdictEach
<1>. SUFFICES ASSUME ArenaInv PROVE OneVerdictEach
  OBVIOUS
<1>1. \A m \in Recognizers : verdicts[m] \in Heard
  BY DEF ArenaInv, VerdictsInv, VerdictsTyped
<1>2. \A m \in Recognizers : Len(verdicts[m]) <= 1
  <2>1. Len(<<>>) <= 1 /\ Len(<<"accept">>) <= 1 /\ Len(<<"reject">>) <= 1
    OBVIOUS
  <2>2. \A v \in Heard : Len(v) <= 1
    BY <2>1, Zenon DEF Heard
  <2>. QED BY <1>1, <2>2
<1>3. \A m \in Winners : m \in Recognizers /\ verdicts[m] = <<"accept">>
  BY <1>1 DEF Winners, Heard
<1>4. \A m, n \in Winners : m = n
  BY <1>3 DEF ArenaInv, VerdictsInv, OneWinner
<1>5. Cardinality(Winners) <= 1
  <2>1. CASE Winners = {}
    BY <2>1, FS_EmptySet
  <2>2. CASE Winners # {}
    <3>1. PICK m : m \in Winners
      BY <2>2
    <3>2. Winners = {m}
      BY <1>4, <3>1
    <3>. QED BY <3>2, FS_Singleton
  <2>. QED BY <2>1, <2>2
<1>6. ~ isOpen /\ ~ inTable => \A m \in Entered : verdicts[m] # <<>>
  BY DEF ArenaInv, VerdictsInv, AllHeard
<1>. QED BY <1>2, <1>5, <1>6 DEF OneVerdictEach

\* Each member of an arena hears one verdict, at most one of them that it won, and all
\* have heard when the arena is gone: _resolveInFavorOf, _resolveByDefault and sweep
\* never decide the same arena twice (arena.dart:26-27, 243-289).
THEOREM OneVerdictForEach == ArenaSpec => []OneVerdictEach
BY ArenaInvAlways, VerdictsAreSingle, PTL

\* No arena outlives its pointer without a hold and the sweep it owes (arena.dart:163-166,
\* 211-221).
THEOREM AlwaysSweptUnlessHeld == ArenaSpec => []SweptUnlessHeld
<1>1. ArenaInv => SweptUnlessHeld
  BY DEF ArenaInv
<1>. QED BY <1>1, ArenaInvAlways, PTL

=============================================================================
