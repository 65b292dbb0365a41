------------------------------- MODULE WireInv -------------------------------
(* The inductive invariant of Wire: what the reader holds and what is under way *)
(* to it are the frames of the messages it has not decoded yet.  TLC checks it  *)
(* on an instance and Wire_proofs proves it for every one.                      *)
EXTENDS Wire

Frame(m) == Pack(Len(Body(m))) \o Body(m)

\* The frames of the messages written and not decoded.
Ahead == [i \in 1..Len(sent) - Len(got) |-> Frame(sent[Len(got) + i])]

\* Nothing is missing as long as the writer lives, and only the end afterwards.
Framed ==
    /\ IsPrefix(frame \o wire, FlattenSeq(Ahead))
    /\ open => frame \o wire = FlattenSeq(Ahead)

\* No read goes past the end of a frame, and no frame is too large.
Bounded ==
    /\ HasHeader => Wanted >= 0
    /\ \A i \in DOMAIN sent : Len(Body(sent[i])) <= MaxBody

StreamInv == TypeOK /\ Undistorted /\ Framed /\ Bounded
==============================================================================
