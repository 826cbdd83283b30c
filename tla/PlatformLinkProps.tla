-------------------------- MODULE PlatformLinkProps --------------------------
(***************************************************************************)
(* What the link owes the platform, and its user.                          *)
(***************************************************************************)
EXTENDS PlatformLink, FiniteSets

PCs == {"idle", "config", "app", "apply", "clean", "make", "reset", "reset.app",
        "stop", "drop"}

\* The modes, the clients, their queues and the threads are of the kind the code
\* makes; a client is the current one only if it was made.
PTypeOK ==
  /\ mode \in Modes /\ gate \in Modes /\ token \in BOOLEAN
  /\ made \in 0 .. MaxSwitches + 1 /\ link \in {None, made}
  /\ ph \in [Clients -> {"none", "born", "dial", "connecting", "up", "open", "closing",
                         "waiting", "ended"}]
  /\ running \in [Clients -> BOOLEAN] /\ asked \in [Clients -> BOOLEAN]
  /\ beat \in [Clients -> BOOLEAN]
  /\ queue \in [Clients -> Seq(Modes)]
  /\ \A k \in Clients : Len(queue[k]) <= QueueSize
  /\ calls \in [Clients -> Seq(Modes)]
  /\ pc \in [Threads -> PCs] /\ to \in [Threads -> Modes]
  /\ view \in Modes \cup {"unknown"}
  /\ switches \in 0 .. MaxSwitches /\ edits \in 0 .. MaxEdits
  /\ breaks \in 0 .. MaxBreaks

\* Broken connections are replaced, and the periodic heartbeat makes up for every
\* notification that was lost or overtaken: while there is a token and a client
\* that was not stopped, the platform ends up with the mode of the configuration,
\* whoever switched it and in whatever order the reports came.
ModeReported ==
  <>[](token /\ \E k \in Clients : running[k]) => <>[](view = mode)

\* A client that is stopped while it runs comes to its end, wherever run_forever
\* is: also when no connection was there to close yet.
StopEnds == \A k \in Clients :
  ph[k] \notin {"none", "born"} /\ ~ running[k] ~> ph[k] = "ended"

Quiet == \A t \in Threads : At(t, "idle")

\* README: in order mode the agent does not accept chats.  What it accepts is
\* decided by one copy of the mode, what it says of itself by the other.
ModesAgree == Quiet => gate = mode
=============================================================================
