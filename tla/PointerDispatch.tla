-------------------------- MODULE PointerDispatch --------------------------
(***************************************************************************)
(* SmoothPointerDataDispatcher, which keeps a pointer packet that comes    *)
(* too early for the next vsync, and its callback in the VsyncWaiter.      *)
(*                                                                         *)
(* The platform thread posts packets to the UI thread.  The vsync takes    *)
(* the registered callback on a third thread and posts it to the UI        *)
(* thread, behind the packets that are already there.                      *)
(***************************************************************************)
EXTENDS Naturals, Sequences

CONSTANTS MaxPackets    \* bound: packets of a run

ASSUME PacketsAssumption == MaxPackets \in Nat

VARIABLES
    pending_packet_,                \* <<>>, or <<p>> for the packet p that is kept
    is_pointer_data_in_progress_,
    secondary_callback,             \* the callback is registered for the next vsync
    uiTasks,                        \* tasks of the UI thread: packets and "callback"
    delivered,                      \* the packets the framework got
    received                        \* how many packets the platform has posted

pointerVars == <<pending_packet_, is_pointer_data_in_progress_, secondary_callback,
                 uiTasks, delivered, received>>

callback == [packet |-> 0]
Packet(p) == [packet |-> p]

PointerInit ==
    /\ pending_packet_ = <<>>
    /\ is_pointer_data_in_progress_ = FALSE
    /\ secondary_callback = FALSE
    /\ uiTasks = <<>>
    /\ delivered = <<>>
    /\ received = 0

\* The shell posts a packet to the UI thread.
PostPacket ==
    /\ received < MaxPackets
    /\ received' = received + 1
    /\ uiTasks' = Append(uiTasks, Packet(received + 1))
    /\ UNCHANGED <<pending_packet_, is_pointer_data_in_progress_, secondary_callback, delivered>>

\* VsyncWaiter::FireCallback takes the callback and posts it.
FireSecondaryCallback ==
    /\ secondary_callback
    /\ secondary_callback' = FALSE
    /\ uiTasks' = Append(uiTasks, callback)
    /\ UNCHANGED <<pending_packet_, is_pointer_data_in_progress_, delivered, received>>

NextTask(p) == uiTasks # <<>> /\ Head(uiTasks) = p /\ uiTasks' = Tail(uiTasks)

\* Mutant: the new packet is delivered and the one that was kept stays behind it.
DispatchPacket_Mutation(p) ==
    /\ NextTask(Packet(p))
    /\ IF is_pointer_data_in_progress_ /\ pending_packet_ = <<>>
       THEN pending_packet_' = <<p>> /\ UNCHANGED delivered
       ELSE delivered' = Append(delivered, p) /\ UNCHANGED pending_packet_
    /\ is_pointer_data_in_progress_' = TRUE
    /\ secondary_callback' = TRUE
    /\ UNCHANGED received

\* A packet that comes while another is in progress is kept, and the one that was
\* kept before it is delivered; any other is delivered at once.
DispatchPacket(p) ==
    /\ NextTask(Packet(p))
    /\ IF is_pointer_data_in_progress_
       THEN delivered' = delivered \o pending_packet_ /\ pending_packet_' = <<p>>
       ELSE delivered' = Append(delivered, p) /\ UNCHANGED pending_packet_
    /\ is_pointer_data_in_progress_' = TRUE
    /\ secondary_callback' = TRUE
    /\ UNCHANGED received

\* Mutant: the callback ends the progress also when it has delivered a packet, and
\* is then not registered again.
RunSecondaryCallback_Mutation ==
    /\ NextTask(callback)
    /\ is_pointer_data_in_progress_' = FALSE
    /\ UNCHANGED <<delivered, pending_packet_, secondary_callback, received>>

\* The callback delivers the packet that was kept and waits for another vsync, or
\* ends the progress.
RunSecondaryCallback ==
    /\ NextTask(callback)
    /\ IF is_pointer_data_in_progress_ /\ pending_packet_ # <<>>
       THEN /\ delivered' = delivered \o pending_packet_
            /\ pending_packet_' = <<>>
            /\ secondary_callback' = TRUE
            /\ UNCHANGED is_pointer_data_in_progress_
       ELSE /\ is_pointer_data_in_progress_' = FALSE
            /\ UNCHANGED <<delivered, pending_packet_, secondary_callback>>
    /\ UNCHANGED received

UiTask == RunSecondaryCallback \/ \E p \in 1 .. MaxPackets : DispatchPacket(p)

PointerNext == PostPacket \/ FireSecondaryCallback \/ UiTask

\* The UI thread runs its tasks, and the display's vsyncs go on.
PointerFairness == WF_pointerVars(UiTask) /\ WF_pointerVars(FireSecondaryCallback)

PointerSpec == PointerInit /\ [][PointerNext]_pointerVars

-----------------------------------------------------------------------------
(* Properties *)

\* What the framework has and what is kept are the first packets, in their order, and
\* the others are waiting, in theirs: none overtakes the one that is kept, is lost or
\* is delivered twice, however vsyncs and packets alternate
\* (pointer_data_dispatcher.cc:36-48).
PacketsInOrder ==
    LET dispatched == delivered \o pending_packet_
        waiting == {i \in DOMAIN uiTasks : uiTasks[i] # callback}
    IN  /\ dispatched = [i \in 1 .. Len(dispatched) |-> i]
        /\ Len(dispatched) <= received
        /\ {uiTasks[i].packet : i \in waiting} = Len(dispatched) + 1 .. received
        /\ \A i, j \in waiting : i < j => uiTasks[i].packet < uiTasks[j].packet

\* A packet that is kept is delivered although no other packet follows: some vsync
\* still has the callback (pointer_data_dispatcher.cc:51-73).
PacketIsDelivered == \A p \in 1 .. MaxPackets : (received >= p) ~> (Len(delivered) >= p)
=============================================================================
