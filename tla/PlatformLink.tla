----------------------------- MODULE PlatformLink -----------------------------
(***************************************************************************)
(* The link to the platform: the WebSocket client of ws/client.py, the run *)
(* mode that its heartbeats report, and what makes, stops and replaces     *)
(* clients (server/app.py, server/api/mode.py, server/api/credentials.py,   *)
(* the config.update handler of ws/handlers.py).                           *)
(*                                                                         *)
(* Every client has a thread with an event loop of its own, thread k for   *)
(* client k; thread 0 is the event loop of the web server.  The mode is    *)
(* kept twice, in the configuration and in the application, and any of     *)
(* these threads may switch it.  A step of a thread ends where it awaits or *)
(* touches what they share.  Of the messages only the mode in heartbeats   *)
(* is kept; the platform and the network are not part of the program: it   *)
(* accepts a connection that has a token, and connections fail or break.   *)
(***************************************************************************)
EXTENDS Integers, Sequences

CONSTANTS Modes,        \* VALID_MODES
          Local,        \* the mode that needs no token
          QueueSize,    \* maxsize of the send queue
          MaxSwitches,  \* bound on the requests to switch the mode
          MaxEdits,     \* bound on the requests to change the credentials
          MaxBreaks     \* bound on connections that fail or break

ASSUME LinkConstants == /\ Local \in Modes
                        /\ QueueSize \in Nat \ {0}
                        /\ MaxSwitches \in Nat /\ MaxEdits \in Nat
                        /\ MaxBreaks \in Nat

Web     == 0
None    == 0
Clients == 1 .. MaxSwitches + 1   \* one at the start, one for each switch
Threads == Clients \cup {Web}

VARIABLES
  mode,      \* config.run_mode, which is reported
  gate,      \* app.run_mode, which requests of the platform are checked against
  token,     \* a token is configured
  link,      \* app.ws_client
  made,      \* clients made so far
  ph,        \* where run_forever of a client is
  running,   \* _running
  asked,     \* ws.close() is scheduled for the connection
  beat,      \* _periodic_heartbeat sleeps (else it is at the test of its loop)
  queue,     \* _send_queue: the modes of the heartbeats in it
  calls,     \* send_now scheduled by other threads, by the mode it carries
  pc, to,    \* threads that switch the mode, and what they switch to
  view,      \* the mode the platform was told last
  switches, edits, breaks

modes   == <<mode, gate, token>>
client  == <<ph, running, asked, beat, queue, calls>>
threads == <<pc, to>>
bounds  == <<switches, edits, breaks>>
pvars   == <<modes, link, made, client, threads, view, bounds>>

PInit == /\ mode \in Modes /\ gate = mode
         /\ \/ token = FALSE /\ made = 0
            \/ token = TRUE /\ made = 1
         /\ link = made
         /\ ph = [k \in Clients |-> IF k <= made THEN "born" ELSE "none"]
         /\ running = [k \in Clients |-> FALSE]
         /\ asked = [k \in Clients |-> FALSE]
         /\ beat = [k \in Clients |-> FALSE]
         /\ queue = [k \in Clients |-> << >>]
         /\ calls = [k \in Clients |-> << >>]
         /\ pc = [t \in Threads |-> "idle"]
         /\ to = [t \in Threads |-> Local]
         /\ view = "unknown"
         /\ switches = 0 /\ edits = 0 /\ breaks = 0

At(t, p) == pc[t] = p
Goto(t, p) == pc' = [pc EXCEPT ![t] = p]

\* _ws is set: from the connection to the finally of run_forever.
Connected(k) == ph[k] \in {"up", "open", "closing"}

\* Messages written to a connection arrive.
Writable(k) == ph[k] \in {"up", "open"}

-----------------------------------------------------------------------------
(* Switching the mode: PUT /mode in the web server, config.update in the   *)
(* loop of a client.                                                       *)

Ask(t, m) == /\ At(t, "idle")
             /\ switches < MaxSwitches /\ switches' = switches + 1
             /\ m # mode
             /\ to' = [to EXCEPT ![t] = m]
             /\ Goto(t, "config")
             /\ UNCHANGED <<modes, link, made, client, view, edits, breaks>>

PutMode(m) == Ask(Web, m) /\ (m = Local \/ token)

ConfigUpdate(k, m) == ph[k] = "open" /\ Ask(k, m)

SetConfig(t) == /\ At(t, "config")
                /\ mode' = to[t]
                /\ Goto(t, "app")
                /\ UNCHANGED <<gate, token, link, made, client, to, view, bounds>>

SetApp(t) == /\ At(t, "app")
             /\ gate' = to[t]
             /\ Goto(t, "apply")
             /\ UNCHANGED <<mode, token, link, made, client, to, view, bounds>>

\* apply_mode_change without a client.
Missing(t) == /\ At(t, "apply") /\ link = None
              /\ Goto(t, "clean")
              /\ UNCHANGED <<modes, link, made, client, to, view, bounds>>

\* _async_notify_platform: in its own loop a client sends at once, to another
\* loop the sending is scheduled.
Notify(t) ==
  /\ At(t, "apply") /\ link # None
  /\ Goto(t, "idle")
  /\ \/ /\ link = t
        /\ view' = IF Writable(t) THEN to[t] ELSE view
        /\ UNCHANGED calls
     \/ /\ link # t /\ Connected(link)
        /\ calls' = [calls EXCEPT ![link] = Append(@, to[t])]
        /\ UNCHANGED view
     \/ /\ link # t /\ ~ Connected(link)
        /\ UNCHANGED <<calls, view>>
  /\ UNCHANGED <<modes, link, made, ph, running, asked, beat, queue, to, bounds>>

\* WSClient.stop
Stop(k) == /\ running' = [running EXCEPT ![k] = FALSE]
           /\ asked' = [asked EXCEPT ![k] = Connected(k)]

\* _start_ws_connection: a client that is there by now is stopped, and a new
\* one takes its place.
Clean(t) == /\ At(t, "clean")
            /\ IF link = None THEN UNCHANGED <<running, asked>> ELSE Stop(link)
            /\ link' = None
            /\ Goto(t, "make")
            /\ UNCHANGED <<modes, made, ph, beat, queue, calls, to, view, bounds>>

Make(t) == /\ At(t, "make")
           /\ made' = made + 1 /\ link' = made + 1
           /\ ph' = [ph EXCEPT ![made + 1] = "born"]
           /\ Goto(t, "idle")
           /\ UNCHANGED <<modes, running, asked, beat, queue, calls, to, view,
                          bounds>>

Switch(t) == \/ SetConfig(t) \/ SetApp(t) \/ Missing(t) \/ Notify(t)
             \/ Clean(t) \/ Make(t)

-----------------------------------------------------------------------------
(* Credentials, in the web server.                                         *)

Edit == /\ At(Web, "idle")
        /\ edits < MaxEdits /\ edits' = edits + 1
        /\ UNCHANGED <<mode, gate, link, made, client, view, switches, breaks>>

\* PUT /credentials, from the answer of the platform on.
PutCredentials == Edit /\ token' = TRUE /\ UNCHANGED threads

\* DELETE /credentials: out of a mode that needs the platform, the mode is reset
\* and the client stopped.
ClearCredentials == /\ Edit
                    /\ token' = FALSE
                    /\ IF mode = Local THEN UNCHANGED pc ELSE Goto(Web, "reset")
                    /\ UNCHANGED to

ResetConfig == /\ At(Web, "reset")
               /\ mode' = Local
               /\ Goto(Web, "reset.app")
               /\ UNCHANGED <<gate, token, link, made, client, to, view, bounds>>

ResetApp == /\ At(Web, "reset.app")
            /\ gate' = Local
            /\ Goto(Web, IF link = None THEN "idle" ELSE "stop")
            /\ UNCHANGED <<mode, token, link, made, client, to, view, bounds>>

StopLink == /\ At(Web, "stop")
            /\ IF link = None THEN UNCHANGED <<running, asked>> ELSE Stop(link)
            /\ Goto(Web, "drop")
            /\ UNCHANGED <<modes, link, made, ph, beat, queue, calls, to, view,
                           bounds>>

DropLink == /\ At(Web, "drop")
            /\ link' = None
            /\ Goto(Web, "idle")
            /\ UNCHANGED <<modes, made, client, to, view, bounds>>

Reset == ResetConfig \/ ResetApp \/ StopLink \/ DropLink

-----------------------------------------------------------------------------
(* run_forever.  While a handler of its loop switches the mode, the loop    *)
(* does nothing else.                                                      *)

In(k, p) == ph[k] = p /\ At(k, "idle")

Phase(k, p) == ph' = [ph EXCEPT ![k] = p]
Apart == UNCHANGED <<modes, link, made, threads>>

Begin(k) == /\ In(k, "born")
            /\ running' = [running EXCEPT ![k] = TRUE]
            /\ Phase(k, "dial")
            /\ Apart /\ UNCHANGED <<asked, beat, queue, calls, view, bounds>>

\* The finally, and the test after it.
After(k) == Phase(k, IF running[k] THEN "waiting" ELSE "ended")

\* The request goes out with the token of the moment; one without is refused.
Dial(k) == /\ In(k, "dial")
           /\ IF token THEN Phase(k, "connecting") ELSE After(k)
           /\ Apart
           /\ UNCHANGED <<running, asked, beat, queue, calls, view, bounds>>

Connect(k) == /\ In(k, "connecting")
              /\ Phase(k, "up")
              /\ Apart
              /\ UNCHANGED <<running, asked, beat, queue, calls, view, bounds>>

Refuse(k) == /\ In(k, "connecting")
             /\ breaks < MaxBreaks /\ breaks' = breaks + 1
             /\ After(k)
             /\ Apart /\ UNCHANGED <<running, asked, beat, queue, calls, view,
                                     switches, edits>>

\* _on_connected: the registration, and a heartbeat that does not go through the
\* queue; then the three tasks of the connection start.
Greet(k) == /\ In(k, "up")
            /\ view' = mode
            /\ beat' = [beat EXCEPT ![k] = FALSE]
            /\ Phase(k, "open")
            /\ Apart /\ UNCHANGED <<running, asked, queue, calls, bounds>>

\* Mutant of BeatTest: the heartbeat looks at the connection only.
BeatForever(k) == /\ In(k, "open") /\ ~ beat[k]
                  /\ beat' = [beat EXCEPT ![k] = TRUE]
                  /\ Apart
                  /\ UNCHANGED <<ph, running, asked, queue, calls, view, bounds>>

\* while self._running and self._ws: the end of the heartbeat ends the connection.
BeatTest(k) == /\ In(k, "open") /\ ~ beat[k]
               /\ \/ running[k] /\ beat' = [beat EXCEPT ![k] = TRUE] /\ UNCHANGED ph
                  \/ ~ running[k] /\ Phase(k, "closing") /\ UNCHANGED beat
               /\ Apart /\ UNCHANGED <<running, asked, queue, calls, view, bounds>>

\* Mutant of Enqueue: a queue without a limit.
EnqueueAll(k, m) == queue' = [queue EXCEPT ![k] = Append(@, m)]

\* put_nowait of send.
Enqueue(k, m) == queue' = [queue EXCEPT ![k] = IF Len(@) < QueueSize
                                               THEN Append(@, m) ELSE @]

\* Mutant of Beat: the other copy of the mode is reported.
BeatGate(k) == /\ In(k, "open") /\ beat[k]
               /\ Enqueue(k, gate)
               /\ beat' = [beat EXCEPT ![k] = FALSE]
               /\ Apart /\ UNCHANGED <<ph, running, asked, calls, view, bounds>>

\* A heartbeat is queued, or dropped if the queue is full.
Beat(k) == /\ In(k, "open") /\ beat[k]
           /\ Enqueue(k, mode)
           /\ beat' = [beat EXCEPT ![k] = FALSE]
           /\ Apart /\ UNCHANGED <<ph, running, asked, calls, view, bounds>>

\* _send_loop
SendQueued(k) == /\ In(k, "open") /\ queue[k] # << >>
                 /\ view' = Head(queue[k])
                 /\ queue' = [queue EXCEPT ![k] = Tail(@)]
                 /\ Apart /\ UNCHANGED <<ph, running, asked, beat, calls, bounds>>

\* A scheduled send_now, unless the second its caller waits is over.
SendNow(k) == /\ At(k, "idle") /\ calls[k] # << >>
              /\ view' \in {view} \cup {m \in {Head(calls[k])} : Writable(k)}
              /\ calls' = [calls EXCEPT ![k] = Tail(@)]
              /\ Apart /\ UNCHANGED <<ph, running, asked, beat, queue, bounds>>

CloseAsked(k) == /\ At(k, "idle") /\ Writable(k) /\ asked[k]
                 /\ Phase(k, "closing")
                 /\ Apart
                 /\ UNCHANGED <<running, asked, beat, queue, calls, view, bounds>>

\* The connection breaks, perhaps with a message in the hands of _send_loop.
Break(k) == /\ At(k, "idle") /\ Writable(k)
            /\ breaks < MaxBreaks /\ breaks' = breaks + 1
            /\ \/ UNCHANGED queue
               \/ /\ ph[k] = "open" /\ queue[k] # << >>
                  /\ queue' = [queue EXCEPT ![k] = Tail(@)]
            /\ Phase(k, "closing")
            /\ Apart /\ UNCHANGED <<running, asked, beat, calls, view, switches,
                                    edits>>

\* The other tasks of the connection are cancelled.
Teardown(k) == /\ In(k, "closing")
               /\ asked' = [asked EXCEPT ![k] = FALSE]
               /\ After(k)
               /\ Apart /\ UNCHANGED <<running, beat, queue, calls, view, bounds>>

\* The wait before a reconnection is over.
Retry(k) == /\ In(k, "waiting")
            /\ Phase(k, IF running[k] THEN "dial" ELSE "ended")
            /\ Apart
            /\ UNCHANGED <<running, asked, beat, queue, calls, view, bounds>>

Loop(k) == \/ Begin(k) \/ Dial(k) \/ Connect(k) \/ Greet(k) \/ CloseAsked(k)
           \/ Teardown(k) \/ Retry(k)

PNext == \/ \E m \in Modes : PutMode(m) \/ \E k \in Clients : ConfigUpdate(k, m)
         \/ PutCredentials \/ ClearCredentials \/ Reset
         \/ \E t \in Threads : Switch(t)
         \/ \E k \in Clients : \/ Loop(k) \/ Refuse(k) \/ Break(k)
                               \/ BeatTest(k) \/ Beat(k) \/ SendQueued(k)
                               \/ SendNow(k)

PSpec == PInit /\ [][PNext]_pvars

\* The tasks of a loop take turns and the threads run; a connection that the
\* platform accepts comes up, and one it refuses is given up.
PFairness == /\ \A t \in Threads : WF_pvars(Switch(t))
             /\ WF_pvars(Reset)
             /\ \A k \in Clients :
                  /\ WF_pvars(Loop(k))
                  /\ WF_pvars(BeatTest(k)) /\ WF_pvars(Beat(k))
                  /\ WF_pvars(SendQueued(k)) /\ WF_pvars(SendNow(k))

PFairSpec == PSpec /\ PFairness
=============================================================================
