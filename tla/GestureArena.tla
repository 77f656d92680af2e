---------------------------- MODULE GestureArena ----------------------------
(***************************************************************************)
(* The gesture arena of one pointer (arena.dart of the framework): gesture *)
(* recognizers enter while the pointer goes down, claim victory or admit   *)
(* defeat, and exactly one of them wins.                                   *)
(*                                                                         *)
(* All of it runs on one isolate, but rejectGesture is a callback into a   *)
(* recognizer, which may resolve others, hold or release the arena before  *)
(* the arena goes on; and the last member left wins in a microtask.        *)
(* The arena's record outlives its removal from the table, as it does in   *)
(* the closures.  A recognizer resolves its entry once (recognizer.dart).  *)
(***************************************************************************)
EXTENDS Naturals, Sequences, FiniteSets

CONSTANTS
    Recognizers,    \* the members that may enter
    nobody          \* the eager winner when there is none

ASSUME ArenaAssumption == nobody \notin Recognizers

VARIABLES
    inTable,            \* _arenas has the arena
    members,            \* its members, in the order they entered
    isOpen, isHeld, hasPendingSweep, eagerWinner,
    resolved,           \* the members that have resolved their entry
    verdicts,           \* verdicts[m]: the calls of acceptGesture and rejectGesture
    resuming,           \* calls of _resolve whose rejectGesture has not returned
    microtasks,         \* _resolveByDefault, scheduled
    pointerUp           \* the pointer is up: sweep was called

arenaVars == <<inTable, members, isOpen, isHeld, hasPendingSweep, eagerWinner, resolved,
               verdicts, resuming, microtasks, pointerUp>>

ArenaInit ==
    /\ inTable = FALSE
    /\ members = <<>>
    /\ isOpen = TRUE
    /\ isHeld = FALSE
    /\ hasPendingSweep = FALSE
    /\ eagerWinner = nobody
    /\ resolved = {}
    /\ verdicts = [m \in Recognizers |-> <<>>]
    /\ resuming = 0
    /\ microtasks = 0
    /\ pointerUp = FALSE

Entered == {members[i] : i \in DOMAIN members}

\* The members of S lose, and those of W win.
Announce(W, S) ==
    verdicts' = [m \in Recognizers |->
        IF m \in W THEN Append(verdicts[m], "accept")
        ELSE IF m \in S THEN Append(verdicts[m], "reject") ELSE verdicts[m]]

-----------------------------------------------------------------------------
\* A recognizer enters, and opens the arena if it is the first.
AddMember(m) ==
    /\ isOpen
    /\ m \notin Entered /\ m \notin resolved
    /\ inTable' = TRUE
    /\ members' = Append(members, m)
    /\ UNCHANGED <<isOpen, isHeld, hasPendingSweep, eagerWinner, resolved, verdicts,
                   resuming, microtasks, pointerUp>>

\* Mutant: the arena is still in the table while its members are told.
ResolveInFavorOf_Mutation(m) ==
    /\ UNCHANGED inTable
    /\ Announce({m}, Entered)

\* _resolveInFavorOf removes the arena and tells the members.
ResolveInFavorOf(m) ==
    /\ inTable' = FALSE
    /\ Announce({m}, Entered)

\* _tryToResolveArena.
TryToResolveArena ==
    \/ /\ Len(members) = 1
       /\ microtasks' = microtasks + 1
       /\ UNCHANGED <<inTable, verdicts>>
    \/ /\ members = <<>>
       /\ inTable' = FALSE
       /\ UNCHANGED <<microtasks, verdicts>>
    \/ /\ Len(members) > 1
       /\ IF eagerWinner = nobody
          THEN UNCHANGED <<inTable, verdicts>>
          ELSE ResolveInFavorOf(eagerWinner)
       /\ UNCHANGED microtasks

\* The binding closes the arena after the pointer down event.
CloseArena ==
    /\ isOpen
    /\ resuming = 0
    /\ isOpen' = FALSE
    /\ IF inTable
       THEN TryToResolveArena
       ELSE UNCHANGED <<inTable, verdicts, microtasks>>
    /\ UNCHANGED <<members, isHeld, hasPendingSweep, eagerWinner, resolved, resuming, pointerUp>>

\* sweep of an arena in the table, held or not: the first member wins.
SweepInTable(held) ==
    IF held
    THEN hasPendingSweep' = TRUE /\ UNCHANGED <<inTable, verdicts>>
    ELSE /\ inTable' = FALSE
         /\ IF members = <<>> THEN UNCHANGED verdicts ELSE Announce({Head(members)}, Entered)
         /\ UNCHANGED hasPendingSweep

\* The binding sweeps the arena after the pointer up event, which may be handled before
\* the microtasks of the pointer down event have run (_flushPointerEventQueue).
Sweep ==
    /\ ~ isOpen /\ ~ pointerUp
    /\ resuming = 0
    /\ pointerUp' = TRUE
    /\ IF inTable THEN SweepInTable(isHeld) ELSE UNCHANGED <<inTable, hasPendingSweep, verdicts>>
    /\ UNCHANGED <<members, isOpen, isHeld, eagerWinner, resolved, resuming, microtasks>>

Hold ==
    /\ inTable /\ ~ isHeld
    /\ isHeld' = TRUE
    /\ UNCHANGED <<inTable, members, isOpen, hasPendingSweep, eagerWinner, resolved,
                   verdicts, resuming, microtasks, pointerUp>>

\* Mutant: a release forgets the sweep that came while the arena was held.
Release_Mutation ==
    /\ inTable /\ isHeld
    /\ isHeld' = FALSE
    /\ UNCHANGED <<inTable, hasPendingSweep, verdicts>>
    /\ UNCHANGED <<members, isOpen, eagerWinner, resolved, resuming, microtasks, pointerUp>>

Release ==
    /\ inTable /\ isHeld
    /\ isHeld' = FALSE
    /\ IF hasPendingSweep
       THEN SweepInTable(FALSE)
       ELSE UNCHANGED <<inTable, hasPendingSweep, verdicts>>
    /\ UNCHANGED <<members, isOpen, eagerWinner, resolved, resuming, microtasks, pointerUp>>

\* A member claims victory: at once, or when the arena closes.
AcceptMember(m) ==
    /\ inTable /\ m \in Entered /\ m \notin resolved
    /\ resolved' = resolved \cup {m}
    /\ IF isOpen
       THEN /\ eagerWinner' = IF eagerWinner = nobody THEN m ELSE eagerWinner
            /\ UNCHANGED <<inTable, verdicts>>
       ELSE ResolveInFavorOf(m) /\ UNCHANGED eagerWinner
    /\ UNCHANGED <<members, isOpen, isHeld, hasPendingSweep, resuming, microtasks, pointerUp>>

\* The members without m, in their order.
Without(m) ==
    LET i == CHOOSE j \in DOMAIN members : members[j] = m
    IN  [j \in 1 .. Len(members) - 1 |-> IF j < i THEN members[j] ELSE members[j + 1]]

\* A member admits defeat: it is removed, and its rejectGesture is called.
RejectMember(m) ==
    /\ inTable /\ m \in Entered /\ m \notin resolved
    /\ resolved' = resolved \cup {m}
    /\ members' = Without(m)
    /\ Announce({}, {m})
    /\ resuming' = resuming + 1
    /\ UNCHANGED <<inTable, isOpen, isHeld, hasPendingSweep, eagerWinner, microtasks, pointerUp>>

\* rejectGesture returns, and _resolve goes on with the record it had.
ResumeReject ==
    /\ resuming > 0
    /\ resuming' = resuming - 1
    /\ IF isOpen THEN UNCHANGED <<inTable, verdicts, microtasks>> ELSE TryToResolveArena
    /\ UNCHANGED <<members, isOpen, isHeld, hasPendingSweep, eagerWinner, resolved, pointerUp>>

\* The microtask: the last member wins, unless the arena has been resolved.
ResolveByDefault ==
    /\ microtasks > 0 /\ resuming = 0
    /\ microtasks' = microtasks - 1
    /\ IF inTable
       THEN inTable' = FALSE /\ Announce({Head(members)}, {})
       ELSE UNCHANGED <<inTable, verdicts>>
    /\ UNCHANGED <<members, isOpen, isHeld, hasPendingSweep, eagerWinner, resolved,
                   resuming, pointerUp>>

ArenaNext ==
    \/ \E m \in Recognizers : AddMember(m) \/ AcceptMember(m) \/ RejectMember(m)
    \/ CloseArena \/ Sweep \/ Hold \/ Release
    \/ ResumeReject
    \/ ResolveByDefault

\* Callbacks return, and the isolate runs its microtasks.
ArenaFairness == WF_arenaVars(ResumeReject) /\ WF_arenaVars(ResolveByDefault)

ArenaSpec == ArenaInit /\ [][ArenaNext]_arenaVars

-----------------------------------------------------------------------------
(* Properties *)

Winners == {m \in Recognizers : \E i \in DOMAIN verdicts[m] : verdicts[m][i] = "accept"}

\* "Exactly one of acceptGesture or rejectGesture will be called" for each member
\* (arena.dart:26-27): none hears twice, whatever a callback resolves before the
\* arena goes on, at most one wins, and once the arena is gone all have heard.
OneVerdictEach ==
    /\ \A m \in Recognizers : Len(verdicts[m]) <= 1
    /\ Cardinality(Winners) <= 1
    /\ ~ isOpen /\ ~ inTable => \A m \in Entered : verdicts[m] # <<>>

\* After the pointer is up, only a hold keeps the arena: a sweep that was put off is
\* made up for when the hold ends (arena.dart:163-166, 211-221).
SweptUnlessHeld == pointerUp /\ inTable => isHeld /\ hasPendingSweep
=============================================================================
