---------------------------- MODULE DbusMirrorInv ----------------------------
(* The inductive invariant of the daemon and its D-Bus mirror. *)
EXTENDS DbusMirror

\* The sessions the daemon has spawned, and what may be told of them.
Known == begun \ {launching}
SnapshotOf(K) == [ready : BOOLEAN, sessions : SUBSET K]
MessageOf(K) == [kind : {"response", "state", "event", "quit"}, snap : SnapshotOf(K)]
BroadcastOf(K) == [kind : {"starting", "started", "finished"}, snap : SnapshotOf(K)]

KnownInv ==
    /\ sessions \subseteq Known /\ launching \in begun \cup {None}
    /\ inbox \in Seq(MessageOf(Known)) /\ idle \in Seq(MessageOf(Known))
    /\ stalled \in Seq(BroadcastOf(Known))
    /\ snapshot \in SnapshotOf(Known)

ServiceInv ==
    /\ ExportsSnapshot /\ ObserversAgree
    /\ adapter # "serving" => idle = <<>> /\ watcher = Unwatched

NoResponse(q) == \A i \in DOMAIN q : q[i].kind # "response"

\* One response is sent for one request, and it is read before anything that
\* follows it.
ChannelInv ==
    /\ adapter \in {"down", "failed"} => ~writer /\ ~asked /\ inbox = <<>>
    /\ adapter # "asking" => ~asked /\ NoResponse(inbox)
    /\ asked => NoResponse(inbox)
    /\ \A i, j \in DOMAIN inbox :
          inbox[i].kind = "response" /\ inbox[j].kind = "response" => i = j
    /\ Following => writer \/ stopping
    /\ writer => ~stopping

\* A broadcast in the greeter's drain that may change what the adapter believes.
OnlyStarting == \A i \in DOMAIN stalled : stalled[i].kind = "starting"

BeliefInv ==
    Following /\ ~stopping /\ ~overtaken /\ OnlyStarting
        => Believes(sessions) \/ ~Fits(StateSnapshot(sessions))

MirrorInv == TypeOK /\ KnownInv /\ ServiceInv /\ ChannelInv /\ BeliefInv
=============================================================================
