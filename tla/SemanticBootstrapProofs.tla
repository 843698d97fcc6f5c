---------------------- MODULE SemanticBootstrapProofs ----------------------
(***************************************************************************)
(* Proofs about module SemanticBootstrap, for any number of attachments.   *)
(*                                                                         *)
(* The argument: a channel is attached once, and from then on it is in one *)
(* place only.  It is a subscriber of the entry, or it is being told, or   *)
(* its queue ends with the final event, and it moves from one to the next. *)
(* A worker comes with the final event, and is ended only when nobody can  *)
(* hold its command channel.                                               *)
(***************************************************************************)
EXTENDS SemanticBootstrap, SequenceTheorems, TLAPS

Event == Final \union {"status"}
ChannelState == [open : BOOLEAN, queue : Seq(Event), session : BOOLEAN,
                 worker : {"none", "unlisted", "listed", "ended"}]
Running == {"unlisted", "listed"}
AppState == [open : BOOLEAN, attaching : {"no", "find", "entry"}, events : 0 .. MaxChannels,
             tx : 0 .. MaxChannels, panel : {"loading", "ready", "disabled"}]

\* The queue of a channel holds its final event.
Told(c) == \E i \in 1 .. Len(channel[c].queue) : channel[c].queue[i] \in Final

\* Channels are attached in order.
Fresh ==
    \A c \in Channel :
        c > attached => /\ ~channel[c].open /\ channel[c].worker = "none"
                        /\ telling[c] = "nothing" /\ c \notin entry.subscribers

\* The only receiver is that of the session, and only a receiver has events.
Receivers ==
    /\ app.events # 0 => channel[app.events].open
    /\ \A c \in Channel : /\ channel[c].open => c = app.events
                          /\ ~channel[c].open => channel[c].queue = <<>>

\* A channel that attaches is nowhere yet, and its entry is there.
Attaching ==
    /\ app.attaching # "no" =>
         /\ app.events # 0
         /\ channel[app.events].queue = <<>>
         /\ channel[app.events].worker = "none"
         /\ telling[app.events] = "nothing"
         /\ app.events \notin entry.subscribers
    /\ app.attaching = "entry" => entry.state # "none"

\* A subscriber and a channel that is being told have no worker yet.
Waiting ==
    \A c \in Channel :
        /\ c \in entry.subscribers => telling[c] = "nothing" /\ channel[c].worker = "none"
        /\ telling[c] # "nothing" => channel[c].worker = "none"

\* A Ready event carries the command channel of a worker that runs.
Handed ==
    \A c \in Channel : \A i \in 1 .. Len(channel[c].queue) :
        channel[c].queue[i] = "ready" => channel[c].worker \in Running

\* A session that is off, or has its worker, does not wait.
Session ==
    /\ ~app.open => app = NoApp
    /\ setting = "off" => app.events = 0 /\ app.tx = 0
    /\ app.tx # 0 => app.events = 0

\* Every session that waits is a subscriber of a task that runs, or is being
\* told, or was told.
WaitingIsRemembered ==
    /\ app.events # 0 /\ app.attaching = "no" =>
         \/ entry.state = "loading" /\ app.events \in entry.subscribers
         \/ telling[app.events] # "nothing"
         \/ Told(app.events)
    /\ entry.state = "loading" => phase \in {"working", "ready", "failed"}
    /\ entry.state # "loading" => entry.subscribers = {}

BootstrapInv ==
    /\ BootstrapTypeOK
    /\ Fresh
    /\ Receivers
    /\ Attaching
    /\ Waiting
    /\ FinalEventIsLast
    /\ Handed
    /\ Session
    /\ PanelTellsTruth
    /\ WaitingIsRemembered

-----------------------------------------------------------------------------
(* What the operators on channels do.                                      *)

\* A queue without a final event gets the event at its end, and it is the
\* last one; a status is not repeated.
LEMMA SendShape ==
  ASSUME NEW q \in Seq(Event), NEW event \in Event,
         \A i \in 1 .. Len(q) : q[i] \notin Final
  PROVE  /\ Send(q, event) \in Seq(Event)
         /\ Send(q, event) # <<>>
         /\ Len(Send(q, event)) \in Nat \ {0}
         /\ Send(q, event)[Len(Send(q, event))] = event
         /\ \A i \in 1 .. Len(Send(q, event)) - 1 : Send(q, event)[i] \notin Final
<1>1. CASE event = "status" /\ q # <<>> /\ q[Len(q)] = "status"
  <2>1. Send(q, event) = q
    BY <1>1 DEF Send
  <2>2. Len(q) \in Nat \ {0}
    BY <1>1
  <2>3. QED
    BY <1>1, <2>1, <2>2
<1>2. CASE ~(event = "status" /\ q # <<>> /\ q[Len(q)] = "status")
  <2>1. Send(q, event) = Append(q, event)
    BY <1>2 DEF Send
  <2>2. /\ Append(q, event) \in Seq(Event)
        /\ Append(q, event) # <<>>
        /\ Len(Append(q, event)) = Len(q) + 1
        /\ Append(q, event)[Len(q) + 1] = event
        /\ \A i \in 1 .. Len(q) : Append(q, event)[i] = q[i]
    BY AppendProperties
  <2>3. QED
    BY <2>1, <2>2, LenProperties
<1>3. QED
  BY <1>1, <1>2

LEMMA TypesOfState ==
  ASSUME BootstrapInv
  PROVE  /\ channel \in [Channel -> ChannelState]
         /\ app.events = 0 \/ app.events \in Channel
         /\ 0 \notin Channel
  BY MaxChannelsAssumption DEF BootstrapInv, BootstrapTypeOK, ChannelState, Event, Channel

LEMMA ClosedRecord ==
  ASSUME NEW r \in ChannelState
  PROVE  /\ [r EXCEPT !.open = FALSE, !.queue = <<>>] \in ChannelState
         /\ [r EXCEPT !.open = FALSE, !.queue = <<>>].open = FALSE
         /\ [r EXCEPT !.open = FALSE, !.queue = <<>>].queue = <<>>
         /\ [r EXCEPT !.open = FALSE, !.queue = <<>>].worker = r.worker
         /\ r.open = FALSE /\ r.queue = <<>> => [r EXCEPT !.open = FALSE, !.queue = <<>>] = r
<1>1. <<>> \in Seq(Event)
  BY EmptySeq
<1>2. QED
  BY <1>1 DEF ChannelState

LEMMA DroppedShape ==
  ASSUME BootstrapInv
  PROVE  /\ Dropped(app.events) = [c \in Channel |-> Dropped(app.events)[c]]
         /\ \A c \in Channel : /\ Dropped(app.events)[c] \in ChannelState
                               /\ Dropped(app.events)[c].open = FALSE
                               /\ Dropped(app.events)[c].queue = <<>>
                               /\ Dropped(app.events)[c].worker = channel[c].worker
         /\ \A c \in Channel : c # app.events => Dropped(app.events)[c] = channel[c]
<1>1. Dropped(app.events) = [c \in Channel |-> Dropped(app.events)[c]]
  BY TypesOfState DEF Dropped
<1>2. ASSUME NEW c \in Channel
      PROVE  /\ Dropped(app.events)[c] \in ChannelState
             /\ Dropped(app.events)[c].open = FALSE
             /\ Dropped(app.events)[c].queue = <<>>
             /\ Dropped(app.events)[c].worker = channel[c].worker
             /\ c # app.events => Dropped(app.events)[c] = channel[c]
  <2>1. channel[c] \in ChannelState
    BY TypesOfState
  <2>2. CASE c # app.events
    <3>1. Dropped(app.events)[c] = channel[c]
      BY <2>2, TypesOfState DEF Dropped
    <3>2. channel[c].open = FALSE /\ channel[c].queue = <<>>
      BY <2>1, <2>2 DEF BootstrapInv, Receivers, ChannelState
    <3>3. QED
      BY <2>1, <2>2, <3>1, <3>2
  <2>3. CASE c = app.events
    <3>1. Dropped(app.events)[c] = [channel[c] EXCEPT !.open = FALSE, !.queue = <<>>]
      BY <2>1, <2>3, TypesOfState DEF Dropped, ChannelState
    <3>2. QED
      BY <2>1, <2>3, <3>1, ClosedRecord
  <2>4. QED
    BY <2>2, <2>3
<1>3. QED
  BY <1>1, <1>2

-----------------------------------------------------------------------------
(* Every action keeps the invariant.                                       *)

LEMMA AttachFindKeeps ==
  ASSUME BootstrapInv, AttachFind
  PROVE  BootstrapInv'
<1>1. /\ UNCHANGED <<setting, telling, channel, attached>>
      /\ app' = [app EXCEPT !.attaching = "entry"]
      /\ app.attaching = "find"
  BY DEF AttachFind
<1>2. /\ setting \in Enabled
      /\ app \in AppState
  BY <1>1 DEF BootstrapInv, BootstrapTypeOK, Attaching, Session, AppState
<1>3. /\ entry'.subscribers = entry.subscribers
      /\ entry'.state \in {"loading", "ready"}
      /\ \/ UNCHANGED <<phase, entry>>
         \/ /\ phase' \in {"working", "failed"}
            /\ entry' = [NoEntry EXCEPT !.state = "loading", !.preference = setting]
  BY <1>1, <1>2 DEF AttachFind, StartPreparation, NoEntry, BootstrapInv, BootstrapTypeOK,
                    WaitingIsRemembered, Phase
<1>4. BootstrapTypeOK'
  BY <1>1, <1>2, <1>3 DEF BootstrapInv, BootstrapTypeOK, NoEntry, AppState, Phase
<1>5. Fresh'
  BY <1>1, <1>2, <1>3 DEF BootstrapInv, Fresh
<1>6. Receivers'
  BY <1>1, <1>2, <1>3 DEF BootstrapInv, Receivers, AppState
<1>7. Attaching'
  BY <1>1, <1>2, <1>3 DEF BootstrapInv, Attaching, AppState
<1>8. Waiting'
  BY <1>1, <1>2, <1>3 DEF BootstrapInv, Waiting
<1>9. FinalEventIsLast'
  BY <1>1, <1>2, <1>3 DEF BootstrapInv, FinalEventIsLast
<1>10. Handed'
  BY <1>1, <1>2, <1>3 DEF BootstrapInv, Handed
<1>11. Session'
  BY <1>1, <1>2, <1>3 DEF BootstrapInv, Session, NoApp, AppState
<1>12. PanelTellsTruth'
  BY <1>1, <1>2, <1>3 DEF BootstrapInv, PanelTellsTruth, AppState
<1>13. WaitingIsRemembered'
  BY <1>1, <1>2, <1>3 DEF BootstrapInv, WaitingIsRemembered, NoEntry, AppState
<1>14. QED
  BY <1>4, <1>5, <1>6, <1>7, <1>8, <1>9, <1>10, <1>11, <1>12, <1>13 DEF BootstrapInv

LEMMA ReportStatusKeeps ==
  ASSUME BootstrapInv, ReportStatus
  PROVE  BootstrapInv'
<1>1. /\ UNCHANGED <<phase, setting, telling, app, channel, attached>>
      /\ entry' = [entry EXCEPT !.status = TRUE]
  BY DEF ReportStatus
<1>2. /\ entry'.subscribers = entry.subscribers
      /\ entry'.state = entry.state
  BY <1>1 DEF BootstrapInv, BootstrapTypeOK
<1>3. BootstrapTypeOK'
  BY <1>1, <1>2 DEF BootstrapInv, BootstrapTypeOK
<1>4. Fresh'
  BY <1>1, <1>2 DEF BootstrapInv, Fresh
<1>5. Receivers'
  BY <1>1, <1>2 DEF BootstrapInv, Receivers
<1>6. Attaching'
  BY <1>1, <1>2 DEF BootstrapInv, Attaching
<1>7. Waiting'
  BY <1>1, <1>2 DEF BootstrapInv, Waiting
<1>8. FinalEventIsLast'
  BY <1>1, <1>2 DEF BootstrapInv, FinalEventIsLast
<1>9. Handed'
  BY <1>1, <1>2 DEF BootstrapInv, Handed
<1>10. Session'
  BY <1>1, <1>2 DEF BootstrapInv, Session
<1>11. PanelTellsTruth'
  BY <1>1, <1>2 DEF BootstrapInv, PanelTellsTruth
<1>12. WaitingIsRemembered'
  BY <1>1, <1>2 DEF BootstrapInv, WaitingIsRemembered, Told
<1>13. QED
  BY <1>3, <1>4, <1>5, <1>6, <1>7, <1>8, <1>9, <1>10, <1>11, <1>12 DEF BootstrapInv

LEMMA PrepareEndsKeeps ==
  ASSUME BootstrapInv, PrepareEnds
  PROVE  BootstrapInv'
<1>1. /\ UNCHANGED bootstrapVars
      /\ phase' \in {"ready", "failed"}
  BY DEF PrepareEnds, EndPreparation
<1>2. BootstrapTypeOK'
  BY <1>1 DEF BootstrapInv, BootstrapTypeOK, bootstrapVars, Phase
<1>3. Fresh'
  BY <1>1 DEF BootstrapInv, Fresh, bootstrapVars
<1>4. Receivers'
  BY <1>1 DEF BootstrapInv, Receivers, bootstrapVars
<1>5. Attaching'
  BY <1>1 DEF BootstrapInv, Attaching, bootstrapVars
<1>6. Waiting'
  BY <1>1 DEF BootstrapInv, Waiting, bootstrapVars
<1>7. FinalEventIsLast'
  BY <1>1 DEF BootstrapInv, FinalEventIsLast, bootstrapVars
<1>8. Handed'
  BY <1>1 DEF BootstrapInv, Handed, bootstrapVars
<1>9. Session'
  BY <1>1 DEF BootstrapInv, Session, bootstrapVars
<1>10. PanelTellsTruth'
  BY <1>1 DEF BootstrapInv, PanelTellsTruth, bootstrapVars
<1>11. WaitingIsRemembered'
  BY <1>1 DEF BootstrapInv, WaitingIsRemembered, bootstrapVars, Told
<1>12. QED
  BY <1>2, <1>3, <1>4, <1>5, <1>6, <1>7, <1>8, <1>9, <1>10, <1>11 DEF BootstrapInv

LEMMA FinishKeeps ==
  ASSUME BootstrapInv, Finish
  PROVE  BootstrapInv'
<1>1. /\ UNCHANGED <<phase, setting, app, channel, attached>>
      /\ entry.state = "loading" /\ phase \in Final
      /\ entry' = [entry EXCEPT !.state = phase, !.subscribers = {}]
  BY DEF Finish
<1>2. telling' = [c \in Channel |-> IF c \in entry.subscribers THEN phase ELSE telling[c]]
  BY DEF Finish
<1>3. entry'.state = phase /\ entry'.subscribers = {}
  BY <1>1 DEF BootstrapInv, BootstrapTypeOK
<1>4. BootstrapTypeOK'
  BY <1>1, <1>2, <1>3 DEF BootstrapInv, BootstrapTypeOK, Final
<1>5. Fresh'
  BY <1>1, <1>2, <1>3 DEF BootstrapInv, Fresh
<1>6. Receivers'
  BY <1>1, <1>2, <1>3 DEF BootstrapInv, Receivers
<1>7. Attaching'
  BY <1>1, <1>2, <1>3, TypesOfState DEF BootstrapInv, Attaching, Final
<1>8. Waiting'
  BY <1>1, <1>2, <1>3 DEF BootstrapInv, Waiting, Final
<1>9. FinalEventIsLast'
  BY <1>1, <1>2, <1>3 DEF BootstrapInv, FinalEventIsLast
<1>10. Handed'
  BY <1>1, <1>2, <1>3 DEF BootstrapInv, Handed
<1>11. Session'
  BY <1>1, <1>2, <1>3 DEF BootstrapInv, Session
<1>12. PanelTellsTruth'
  BY <1>1, <1>2, <1>3 DEF BootstrapInv, PanelTellsTruth
<1>13. WaitingIsRemembered'
  BY <1>1, <1>2, <1>3 DEF BootstrapInv, WaitingIsRemembered, Told, Final, BootstrapTypeOK, Channel
<1>14. QED
  BY <1>4, <1>5, <1>6, <1>7, <1>8, <1>9, <1>10, <1>11, <1>12, <1>13 DEF BootstrapInv

LEMMA ListWorkerKeeps ==
  ASSUME BootstrapInv, NEW d \in Channel, ListWorker(d)
  PROVE  BootstrapInv'
<1>1. /\ UNCHANGED <<phase, setting, entry, telling, app, attached>>
      /\ channel' = [channel EXCEPT ![d].worker = "listed"]
      /\ channel[d].worker \in Running
  BY DEF ListWorker, Running
<1>2. /\ channel' \in [Channel -> ChannelState]
      /\ \A c \in Channel : /\ channel'[c].queue = channel[c].queue
                            /\ channel'[c].open = channel[c].open
      /\ \A c \in Channel \ {d} : channel'[c] = channel[c]
      /\ channel'[d].worker = "listed"
  BY <1>1, TypesOfState DEF ChannelState
<1>3. BootstrapTypeOK'
  BY <1>1, <1>2 DEF BootstrapInv, BootstrapTypeOK, ChannelState, Event
<1>4. Fresh'
  <2>1. ~(d > attached)
    BY <1>1 DEF BootstrapInv, Fresh, Running
  <2>2. QED
    BY <1>1, <1>2, <2>1 DEF BootstrapInv, Fresh
<1>5. Receivers'
  BY <1>1, <1>2 DEF BootstrapInv, Receivers
<1>6. Attaching'
  BY <1>1, <1>2 DEF BootstrapInv, Attaching, Running
<1>7. Waiting'
  BY <1>1, <1>2 DEF BootstrapInv, Waiting, Running
<1>8. FinalEventIsLast'
  BY <1>1, <1>2 DEF BootstrapInv, FinalEventIsLast
<1>9. Handed'
  BY <1>1, <1>2 DEF BootstrapInv, Handed, Running
<1>10. Session'
  BY <1>1, <1>2 DEF BootstrapInv, Session
<1>11. PanelTellsTruth'
  BY <1>1, <1>2 DEF BootstrapInv, PanelTellsTruth, Running
<1>12. WaitingIsRemembered'
  BY <1>1, <1>2 DEF BootstrapInv, WaitingIsRemembered, Told
<1>13. QED
  BY <1>3, <1>4, <1>5, <1>6, <1>7, <1>8, <1>9, <1>10, <1>11, <1>12 DEF BootstrapInv

LEMMA WorkerEndsKeeps ==
  ASSUME BootstrapInv, NEW d \in Channel, WorkerEnds(d)
  PROVE  BootstrapInv'
<1>1. /\ UNCHANGED <<phase, setting, entry, telling, app, attached>>
      /\ channel' = [channel EXCEPT ![d].worker = "ended"]
      /\ channel[d].worker \in Running
      /\ app.tx # d /\ channel[d].queue = <<>>
  BY DEF WorkerEnds, Running
<1>2. /\ channel' \in [Channel -> ChannelState]
      /\ \A c \in Channel : /\ channel'[c].queue = channel[c].queue
                            /\ channel'[c].open = channel[c].open
      /\ \A c \in Channel \ {d} : channel'[c] = channel[c]
      /\ channel'[d].worker = "ended"
  BY <1>1, TypesOfState DEF ChannelState
<1>3. BootstrapTypeOK'
  BY <1>1, <1>2 DEF BootstrapInv, BootstrapTypeOK, ChannelState, Event
<1>4. Fresh'
  <2>1. ~(d > attached)
    BY <1>1 DEF BootstrapInv, Fresh, Running
  <2>2. QED
    BY <1>1, <1>2, <2>1 DEF BootstrapInv, Fresh
<1>5. Receivers'
  BY <1>1, <1>2 DEF BootstrapInv, Receivers
<1>6. Attaching'
  BY <1>1, <1>2 DEF BootstrapInv, Attaching, Running
<1>7. Waiting'
  BY <1>1, <1>2 DEF BootstrapInv, Waiting, Running
<1>8. FinalEventIsLast'
  BY <1>1, <1>2 DEF BootstrapInv, FinalEventIsLast
<1>9. Handed'
  BY <1>1, <1>2 DEF BootstrapInv, Handed, Running
<1>10. Session'
  BY <1>1, <1>2 DEF BootstrapInv, Session
<1>11. PanelTellsTruth'
  BY <1>1, <1>2 DEF BootstrapInv, PanelTellsTruth, Running
<1>12. WaitingIsRemembered'
  BY <1>1, <1>2 DEF BootstrapInv, WaitingIsRemembered, Told
<1>13. QED
  BY <1>3, <1>4, <1>5, <1>6, <1>7, <1>8, <1>9, <1>10, <1>11, <1>12 DEF BootstrapInv

LEMMA ProcessEndsKeeps ==
  ASSUME BootstrapInv, ProcessEnds
  PROVE  BootstrapInv'
<1>1. /\ UNCHANGED <<setting, attached>>
      /\ phase' = "idle" /\ entry' = NoEntry /\ telling' = Nothing /\ app' = NoApp
      /\ channel' = [c \in Channel |-> Unused]
  BY DEF ProcessEnds, KillPreparation
<1>2. /\ Unused \in ChannelState /\ Unused.queue = <<>>
      /\ ~Unused.open /\ Unused.worker = "none"
  BY EmptySeq DEF Unused, ChannelState
<1>3. BootstrapTypeOK'
  BY <1>1, <1>2, MaxChannelsAssumption
     DEF BootstrapInv, BootstrapTypeOK, ChannelState, Event, Phase, NoEntry, NoApp, Nothing, Enabled
<1>4. Fresh'
  BY <1>1, <1>2 DEF BootstrapInv, Fresh, Nothing, NoEntry
<1>5. Receivers'
  BY <1>1, <1>2 DEF BootstrapInv, Receivers, NoApp
<1>6. Attaching'
  BY <1>1, <1>2 DEF BootstrapInv, Attaching, NoApp
<1>7. Waiting'
  BY <1>1, <1>2 DEF BootstrapInv, Waiting, NoEntry, Nothing
<1>8. FinalEventIsLast'
  BY <1>1, <1>2 DEF BootstrapInv, FinalEventIsLast, Nothing, NoEntry
<1>9. Handed'
  BY <1>1, <1>2 DEF BootstrapInv, Handed
<1>10. Session'
  BY <1>1, <1>2 DEF BootstrapInv, Session, NoApp
<1>11. PanelTellsTruth'
  BY <1>1, <1>2 DEF BootstrapInv, PanelTellsTruth, NoApp
<1>12. WaitingIsRemembered'
  BY <1>1, <1>2 DEF BootstrapInv, WaitingIsRemembered, NoApp, NoEntry
<1>13. QED
  BY <1>3, <1>4, <1>5, <1>6, <1>7, <1>8, <1>9, <1>10, <1>11, <1>12 DEF BootstrapInv

LEMMA TurnedOffKeeps ==
  ASSUME BootstrapInv, DisableSemanticRuntime,
         setting' \in Enabled \union {"off"}, UNCHANGED <<phase, entry, telling>>
  PROVE  BootstrapInv'
<1>1. /\ app' = [NoApp EXCEPT !.open = TRUE]
      /\ channel' = Dropped(app.events)
      /\ UNCHANGED attached
  BY DEF DisableSemanticRuntime
<1>2. /\ channel' \in [Channel -> ChannelState]
      /\ \A c \in Channel : /\ channel'[c].queue = <<>>
                            /\ ~channel'[c].open
                            /\ channel'[c].worker = channel[c].worker
  BY <1>1, DroppedShape
<1>3. Len(<<>>) = 0
  BY EmptySeq
<1>4. BootstrapTypeOK'
  <2>1. app' \in AppState
    <3>1. app' = [open |-> TRUE, attaching |-> "no", events |-> 0, tx |-> 0, panel |-> "disabled"]
      BY <1>1 DEF NoApp
    <3>2. QED
      BY <3>1, MaxChannelsAssumption DEF AppState
  <2>2. QED
    BY <1>1, <1>2, <2>1 DEF BootstrapInv, BootstrapTypeOK, ChannelState, Event, AppState
<1>5. Fresh'
  BY <1>1, <1>2, <1>3 DEF BootstrapInv, Fresh
<1>6. Receivers'
  BY <1>1, <1>2, <1>3 DEF BootstrapInv, Receivers, NoApp
<1>7. Attaching'
  BY <1>1, <1>2, <1>3 DEF BootstrapInv, Attaching, NoApp
<1>8. Waiting'
  BY <1>1, <1>2, <1>3 DEF BootstrapInv, Waiting
<1>9. FinalEventIsLast'
  BY <1>1, <1>2, <1>3 DEF BootstrapInv, FinalEventIsLast
<1>10. Handed'
  BY <1>1, <1>2, <1>3 DEF BootstrapInv, Handed
<1>11. Session'
  BY <1>1, <1>2, <1>3 DEF BootstrapInv, Session, NoApp
<1>12. PanelTellsTruth'
  BY <1>1, <1>2, <1>3 DEF BootstrapInv, PanelTellsTruth, NoApp
<1>13. WaitingIsRemembered'
  BY <1>1, <1>2, <1>3 DEF BootstrapInv, WaitingIsRemembered, NoApp
<1>14. QED
  BY <1>4, <1>5, <1>6, <1>7, <1>8, <1>9, <1>10, <1>11, <1>12, <1>13 DEF BootstrapInv

LEMMA CloseSessionKeeps ==
  ASSUME BootstrapInv, CloseSession
  PROVE  BootstrapInv'
<1>1. /\ app' = NoApp
      /\ UNCHANGED <<phase, setting, entry, telling, attached>>
  BY DEF CloseSession
<1>2. /\ channel' \in [Channel -> ChannelState]
      /\ \A c \in Channel : /\ channel'[c].queue = <<>>
                            /\ ~channel'[c].open
                            /\ channel[c].worker = "none" => channel'[c].worker = "none"
  <2> DEFINE worker(c) == IF channel[c].session /\ Dropped(app.events)[c].worker = "listed"
                          THEN "ended" ELSE Dropped(app.events)[c].worker
  <2>1. channel' = [c \in Channel |-> [Dropped(app.events)[c] EXCEPT !.session = FALSE,
                                                                    !.worker = worker(c)]]
    BY DEF CloseSession
  <2>2. ASSUME NEW c \in Channel
        PROVE  /\ worker(c) \in {"none", "unlisted", "listed", "ended"}
               /\ channel[c].worker = "none" => worker(c) = "none"
    BY DroppedShape, TypesOfState DEF ChannelState
  <2> HIDE DEF worker
  <2>3. ASSUME NEW c \in Channel
        PROVE  /\ channel'[c] \in ChannelState
               /\ channel'[c].queue = <<>>
               /\ ~channel'[c].open
               /\ channel'[c].worker = worker(c)
    <3>1. channel'[c] = [Dropped(app.events)[c] EXCEPT !.session = FALSE, !.worker = worker(c)]
      BY <2>1
    <3>2. /\ Dropped(app.events)[c] \in ChannelState
          /\ Dropped(app.events)[c].queue = <<>>
          /\ Dropped(app.events)[c].open = FALSE
      BY DroppedShape
    <3>3. worker(c) \in {"none", "unlisted", "listed", "ended"}
      BY <2>2
    <3>4. QED
      BY <3>1, <3>2, <3>3 DEF ChannelState
  <2>4. channel' = [c \in Channel |-> channel'[c]]
    BY <2>1
  <2>5. QED
    BY <2>2, <2>3, <2>4
<1>3. Len(<<>>) = 0
  BY EmptySeq
<1>4. BootstrapTypeOK'
  BY <1>1, <1>2, MaxChannelsAssumption DEF BootstrapInv, BootstrapTypeOK, ChannelState, Event,
                                           NoApp, Enabled
<1>5. Fresh'
  BY <1>1, <1>2, <1>3 DEF BootstrapInv, Fresh
<1>6. Receivers'
  BY <1>1, <1>2, <1>3 DEF BootstrapInv, Receivers, NoApp
<1>7. Attaching'
  BY <1>1, <1>2, <1>3 DEF BootstrapInv, Attaching, NoApp
<1>8. Waiting'
  BY <1>1, <1>2, <1>3 DEF BootstrapInv, Waiting
<1>9. FinalEventIsLast'
  BY <1>1, <1>2, <1>3 DEF BootstrapInv, FinalEventIsLast
<1>10. Handed'
  BY <1>1, <1>2, <1>3 DEF BootstrapInv, Handed
<1>11. Session'
  BY <1>1, <1>2, <1>3 DEF BootstrapInv, Session, NoApp
<1>12. PanelTellsTruth'
  BY <1>1, <1>2, <1>3 DEF BootstrapInv, PanelTellsTruth, NoApp
<1>13. WaitingIsRemembered'
  BY <1>1, <1>2, <1>3 DEF BootstrapInv, WaitingIsRemembered, NoApp
<1>14. QED
  BY <1>4, <1>5, <1>6, <1>7, <1>8, <1>9, <1>10, <1>11, <1>12, <1>13 DEF BootstrapInv

\* A session without a receiver gets the next channel.
LEMMA NewChannelKeeps ==
  ASSUME BootstrapInv, app.events = 0, setting' \in Enabled,
         NEW n \in Channel, attached' = n, n > attached,
         app' = [open |-> TRUE, attaching |-> "find", events |-> n, tx |-> 0, panel |-> "loading"],
         channel' = [channel EXCEPT ![n] = [open |-> TRUE, queue |-> <<>>, session |-> TRUE,
                                            worker |-> "none"]],
         UNCHANGED <<phase, entry, telling>>
  PROVE  BootstrapInv'
<1>1. app' \in AppState /\ app'.events = n /\ n # 0
  BY MaxChannelsAssumption DEF AppState, Channel
<1>2. /\ channel' \in [Channel -> ChannelState]
      /\ \A c \in Channel : c # n => channel'[c] = channel[c]
      /\ channel'[n].open
      /\ channel'[n].queue = <<>>
      /\ channel'[n].worker = "none"
  <2>1. [open |-> TRUE, queue |-> <<>>, session |-> TRUE, worker |-> "none"] \in ChannelState
    BY EmptySeq DEF ChannelState
  <2>2. QED
    BY <2>1, TypesOfState
<1>3. /\ telling[n] = "nothing"
      /\ n \notin entry.subscribers
  BY DEF BootstrapInv, Fresh
<1>4. Len(<<>>) = 0
  BY EmptySeq
<1>5. BootstrapTypeOK'
  BY <1>1, <1>2, MaxChannelsAssumption
     DEF BootstrapInv, BootstrapTypeOK, ChannelState, Event, AppState, Channel
<1>6. Fresh'
  BY <1>2 DEF BootstrapInv, BootstrapTypeOK, Fresh, Channel
<1>7. Receivers'
  <2>1. \A c \in Channel : ~channel[c].open /\ channel[c].queue = <<>>
    BY TypesOfState DEF BootstrapInv, Receivers
  <2>2. QED
    BY <1>1, <1>2, <2>1 DEF Receivers
<1>8. Attaching'
  <2>1. entry'.subscribers = entry.subscribers /\ telling' = telling
    OBVIOUS
  <2>2. QED
    BY <1>1, <1>2, <1>3, <2>1 DEF Attaching
<1>9. Waiting'
  BY <1>2, <1>3 DEF BootstrapInv, Waiting
<1>10. FinalEventIsLast'
  BY <1>2, <1>4 DEF BootstrapInv, FinalEventIsLast
<1>11. Handed'
  BY <1>2, <1>4 DEF BootstrapInv, Handed
<1>12. Session'
  BY DEF Session, Enabled
<1>13. PanelTellsTruth'
  BY DEF PanelTellsTruth
<1>14. WaitingIsRemembered'
  BY DEF BootstrapInv, WaitingIsRemembered
<1>15. QED
  BY <1>5, <1>6, <1>7, <1>8, <1>9, <1>10, <1>11, <1>12, <1>13, <1>14 DEF BootstrapInv

LEMMA InitSemanticRuntimeKeeps ==
  ASSUME BootstrapInv, NEW preference \in Enabled \union {"off"},
         InitSemanticRuntime(preference), app.events = 0,
         setting' = preference, UNCHANGED <<phase, entry, telling>>
  PROVE  BootstrapInv'
<1>1. CASE preference = "off" \/ Different(preference) \/ Unavailable(preference)
  <2>1. DisableSemanticRuntime
    BY <1>1 DEF InitSemanticRuntime, DisableSemanticRuntime, Dropped
  <2>2. QED
    BY <2>1, TurnedOffKeeps
<1>2. CASE ~(preference = "off" \/ Different(preference) \/ Unavailable(preference))
  <2>1. attached < MaxChannels /\ attached' = attached + 1
    BY <1>2 DEF InitSemanticRuntime
  <2>2. attached' \in Channel /\ attached' > attached
    BY <2>1, MaxChannelsAssumption DEF BootstrapInv, BootstrapTypeOK, Channel
  <2>3. app' = [open |-> TRUE, attaching |-> "find", events |-> attached', tx |-> 0,
                panel |-> "loading"]
    BY <1>2 DEF InitSemanticRuntime, NoApp
  <2>4. channel' = [channel EXCEPT ![attached'] = [open |-> TRUE, queue |-> <<>>, session |-> TRUE,
                                                  worker |-> "none"]]
    BY <1>2 DEF InitSemanticRuntime, Unused
  <2>5. setting' \in Enabled
    BY <1>2
  <2>6. QED
    BY <2>2, <2>3, <2>4, <2>5, NewChannelKeeps
<1>3. QED
  BY <1>1, <1>2

LEMMA OpenSessionKeeps ==
  ASSUME BootstrapInv, OpenSession
  PROVE  BootstrapInv'
<1>1. /\ setting \in Enabled \union {"off"}
      /\ app.events = 0
  BY DEF BootstrapInv, BootstrapTypeOK, Session, OpenSession, NoApp
<1>2. QED
  BY <1>1, InitSemanticRuntimeKeeps DEF OpenSession

LEMMA SaveRuntimeKeeps ==
  ASSUME BootstrapInv, NEW preference \in Enabled \union {"off"}, SaveRuntime(preference)
  PROVE  BootstrapInv'
<1>1. /\ app.open /\ app.attaching = "no"
      /\ setting' = preference
      /\ UNCHANGED <<phase, entry, telling>>
      /\ FinishUpdate(preference)
  BY DEF SaveRuntime
<1>2. CASE preference = "off" /\ DisableSemanticRuntime
  BY <1>1, <1>2, TurnedOffKeeps
<1>3. CASE setting = "off" /\ InitSemanticRuntime(preference)
  BY <1>1, <1>3, InitSemanticRuntimeKeeps DEF BootstrapInv, Session
<1>4. CASE preference # "off" /\ UNCHANGED <<app, channel, attached>>
  <2>1. UNCHANGED <<phase, entry, telling, app, channel, attached>>
    BY <1>1, <1>4
  <2>2. BootstrapTypeOK'
    BY <1>1, <2>1 DEF BootstrapInv, BootstrapTypeOK
  <2>3. Session'
    BY <1>1, <1>4, <2>1 DEF BootstrapInv, Session
  <2>4. WaitingIsRemembered'
    BY <2>1 DEF BootstrapInv, WaitingIsRemembered, Told
  <2>5. QED
    BY <2>1, <2>2, <2>3, <2>4
       DEF BootstrapInv, Fresh, Receivers, Attaching, Waiting, FinalEventIsLast, Handed,
           PanelTellsTruth
<1>5. QED
  BY <1>1, <1>2, <1>3, <1>4 DEF FinishUpdate

LEMMA AttachEntryKeeps ==
  ASSUME BootstrapInv, AttachEntry
  PROVE  BootstrapInv'
<1> DEFINE e == app.events
           event == IF entry.state = "loading" THEN "status" ELSE entry.state
<1>1. /\ e \in Channel
      /\ channel[e] \in ChannelState /\ channel[e].open
      /\ channel[e].queue = <<>> /\ channel[e].worker = "none"
      /\ telling[e] = "nothing" /\ e \notin entry.subscribers
      /\ entry.state \in {"loading", "ready", "failed"}
      /\ app.tx = 0 /\ app.open
  BY TypesOfState DEF AttachEntry, BootstrapInv, BootstrapTypeOK, Attaching, Receivers,
                      Session, NoApp
<1>2. /\ UNCHANGED <<phase, setting, telling, attached>>
      /\ app' = [app EXCEPT !.attaching = "no"]
  BY DEF AttachEntry
<1>3. /\ app' \in AppState /\ app'.events = e /\ app'.tx = 0 /\ app'.open
      /\ app'.attaching = "no" /\ app'.panel = app.panel
  BY <1>1, <1>2 DEF BootstrapInv, BootstrapTypeOK, AppState
<1>4. /\ entry'.state = entry.state /\ entry'.preference = entry.preference
      /\ entry'.status = entry.status
      /\ entry'.subscribers = IF entry.state = "loading" THEN entry.subscribers \union {e}
                              ELSE entry.subscribers
      /\ entry' \in [state : {"none", "loading", "ready", "failed"}, preference : Enabled,
                     subscribers : SUBSET Channel, status : BOOLEAN]
  <2>1. entry' = IF entry.state = "loading"
                 THEN [entry EXCEPT !.subscribers = entry.subscribers \union {e}] ELSE entry
    BY <1>1 DEF AttachEntry
  <2>2. QED
    BY <1>1, <2>1 DEF BootstrapInv, BootstrapTypeOK
<1>5. /\ Send(<<>>, event) \in Seq(Event)
      /\ Len(Send(<<>>, event)) = 1
      /\ Send(<<>>, event)[1] = event
  <2>1. Send(<<>>, event) = Append(<<>>, event)
    BY DEF Send
  <2>2. event \in Event
    BY <1>1 DEF Event, Final
  <2>3. <<>> \in Seq(Event) /\ Len(<<>>) = 0
    BY EmptySeq
  <2> HIDE DEF event
  <2>4. /\ Append(<<>>, event) \in Seq(Event)
        /\ Len(Append(<<>>, event)) = Len(<<>>) + 1
        /\ Append(<<>>, event)[Len(<<>>) + 1] = event
    BY <2>2, <2>3, AppendProperties
  <2>5. QED
    BY <2>1, <2>3, <2>4
<1>6. /\ channel' \in [Channel -> ChannelState]
      /\ \A c \in Channel \ {e} : channel'[c] = channel[c]
      /\ channel'[e].open
      /\ channel'[e].queue = Send(<<>>, event)
      /\ channel'[e].worker = IF event = "ready" THEN "listed" ELSE "none"
  <2>1. CASE entry.state = "loading"
    <3>1. channel' = [channel EXCEPT ![e].queue = Send(<<>>, event)]
      BY <1>1, <2>1 DEF AttachEntry
    <3>2. QED
      BY <1>1, <1>5, <2>1, <3>1, TypesOfState DEF ChannelState
  <2>2. CASE entry.state = "ready"
    <3>1. channel' = [channel EXCEPT ![e].queue = Send(<<>>, event), ![e].worker = "listed"]
      BY <1>1, <2>2 DEF AttachEntry, ReadySent
    <3>2. QED
      BY <1>1, <1>5, <2>2, <3>1, TypesOfState DEF ChannelState
  <2>3. CASE entry.state = "failed"
    <3>1. channel' = [channel EXCEPT ![e].queue = Send(<<>>, event)]
      BY <1>1, <2>3 DEF AttachEntry
    <3>2. QED
      BY <1>1, <1>5, <2>3, <3>1, TypesOfState DEF ChannelState
  <2>4. QED
    BY <1>1, <2>1, <2>2, <2>3
<1> HIDE DEF e
<1>7. BootstrapTypeOK'
  BY <1>2, <1>3, <1>4, <1>6 DEF BootstrapInv, BootstrapTypeOK, ChannelState, Event, AppState
<1>8. Fresh'
  BY <1>1, <1>2, <1>4, <1>6 DEF BootstrapInv, Fresh
<1>9. Receivers'
  BY <1>1, <1>3, <1>6 DEF BootstrapInv, Receivers, e
<1>10. Attaching'
  BY <1>3 DEF Attaching
<1>11. Waiting'
  BY <1>1, <1>2, <1>4, <1>6 DEF BootstrapInv, Waiting
<1>12. FinalEventIsLast'
  BY <1>1, <1>2, <1>4, <1>5, <1>6 DEF BootstrapInv, FinalEventIsLast, Final
<1>13. Handed'
  BY <1>1, <1>5, <1>6 DEF BootstrapInv, Handed, Running
<1>14. Session'
  BY <1>2, <1>3 DEF BootstrapInv, Session, e
<1>15. PanelTellsTruth'
  BY <1>1, <1>3 DEF BootstrapInv, PanelTellsTruth
<1>16. WaitingIsRemembered'
  BY <1>1, <1>2, <1>3, <1>4, <1>5, <1>6 DEF BootstrapInv, WaitingIsRemembered, Told, Final
<1>17. QED
  BY <1>7, <1>8, <1>9, <1>10, <1>11, <1>12, <1>13, <1>14, <1>15, <1>16 DEF BootstrapInv

LEMMA TellSubscriberKeeps ==
  ASSUME BootstrapInv, NEW d \in Channel, TellSubscriber(d)
  PROVE  BootstrapInv'
<1> DEFINE event == telling[d]
<1>1. /\ event \in Final
      /\ channel[d] \in ChannelState /\ channel[d].worker = "none"
      /\ d \notin entry.subscribers
      /\ \A i \in 1 .. Len(channel[d].queue) : channel[d].queue[i] \notin Final
      /\ app.tx # d
      /\ ~channel[d].open => channel[d].queue = <<>>
      /\ channel[d].open => d = app.events
  BY TypesOfState
     DEF TellSubscriber, BootstrapInv, BootstrapTypeOK, Waiting, FinalEventIsLast, Receivers,
         PanelTellsTruth, Session, NoApp
<1>2. /\ UNCHANGED <<phase, setting, entry, app, attached>>
      /\ telling' = [telling EXCEPT ![d] = "nothing"]
  BY DEF TellSubscriber
<1>3. /\ telling' \in [Channel -> Final \union {"nothing"}]
      /\ telling'[d] = "nothing"
      /\ \A c \in Channel \ {d} : telling'[c] = telling[c]
  BY <1>2 DEF BootstrapInv, BootstrapTypeOK
<1> DEFINE q == Send(channel[d].queue, event)
<1>4. /\ q \in Seq(Event) /\ q # <<>> /\ Len(q) \in Nat \ {0}
      /\ q[Len(q)] = event
      /\ \A i \in 1 .. Len(q) - 1 : q[i] \notin Final
  <2>1. channel[d].queue \in Seq(Event) /\ event \in Event
    BY <1>1 DEF ChannelState, Event
  <2>2. QED
    BY <1>1, <2>1, SendShape
<1>5. /\ channel' \in [Channel -> ChannelState]
      /\ \A c \in Channel \ {d} : channel'[c] = channel[c]
      /\ channel'[d].open = channel[d].open
      /\ channel'[d].queue = IF channel[d].open THEN q ELSE channel[d].queue
      /\ channel[d].open /\ event = "ready" => channel'[d].worker = "unlisted"
  <2>1. CASE event = "ready"
    <3>1. channel' = [channel EXCEPT ![d].queue = IF channel[d].open THEN q ELSE channel[d].queue,
                                     ![d].worker = IF channel[d].open THEN "unlisted" ELSE "ended"]
      BY <2>1 DEF TellSubscriber, ReadySent
    <3> HIDE DEF q
    <3>2. QED
      BY <1>1, <1>4, <3>1, TypesOfState DEF ChannelState
  <2>2. CASE event = "failed"
    <3>1. channel' = [channel EXCEPT ![d].queue = IF channel[d].open THEN q ELSE channel[d].queue]
      BY <2>2 DEF TellSubscriber
    <3> HIDE DEF q
    <3>2. QED
      BY <1>1, <1>4, <2>2, <3>1, TypesOfState DEF ChannelState
  <2>3. QED
    BY <1>1, <2>1, <2>2 DEF Final
<1> HIDE DEF q, event
<1>6. BootstrapTypeOK'
  BY <1>2, <1>3, <1>5 DEF BootstrapInv, BootstrapTypeOK, ChannelState, Event
<1>7. Fresh'
  <2>1. ~(d > attached)
    BY <1>1 DEF BootstrapInv, Fresh, Final, event
  <2>2. QED
    BY <1>2, <1>3, <1>5, <2>1 DEF BootstrapInv, Fresh
<1>8. Receivers'
  BY <1>1, <1>2, <1>5, TypesOfState DEF BootstrapInv, Receivers
<1>9. Attaching'
  <2>1. app.attaching # "no" => app.events # d
    BY <1>1 DEF BootstrapInv, Attaching, Final, event
  <2>2. QED
    BY <1>2, <1>3, <1>5, <2>1, TypesOfState DEF BootstrapInv, Attaching
<1>10. Waiting'
  BY <1>1, <1>2, <1>3, <1>5 DEF BootstrapInv, Waiting
<1>11. FinalEventIsLast'
  BY <1>1, <1>2, <1>3, <1>4, <1>5 DEF BootstrapInv, FinalEventIsLast
<1>12. Handed'
  BY <1>1, <1>4, <1>5 DEF BootstrapInv, Handed, Running, Final
<1>13. Session'
  BY <1>2 DEF BootstrapInv, Session
<1>14. PanelTellsTruth'
  BY <1>1, <1>2, <1>5 DEF BootstrapInv, BootstrapTypeOK, PanelTellsTruth, Channel
<1>15. WaitingIsRemembered'
  <2>1. ASSUME app.events = d
        PROVE  Told(d)'
    <3>1. channel'[d].queue = q
      BY <1>1, <1>5, <2>1 DEF BootstrapInv, Receivers, Channel
    <3>2. QED
      BY <1>1, <1>4, <3>1 DEF Told
  <2>2. ASSUME NEW c \in Channel \ {d}, Told(c)
        PROVE  Told(c)'
    BY <1>5, <2>2 DEF Told
  <2>3. QED
    BY <1>2, <1>3, <2>1, <2>2, TypesOfState DEF BootstrapInv, WaitingIsRemembered
<1>16. QED
  BY <1>6, <1>7, <1>8, <1>9, <1>10, <1>11, <1>12, <1>13, <1>14, <1>15 DEF BootstrapInv

LEMMA ForwardStatusKeeps ==
  ASSUME BootstrapInv, ForwardStatus
  PROVE  BootstrapInv'
<1> DEFINE alive == {c \in entry.subscribers : channel[c].open}
           q(c) == Send(channel[c].queue, "status")
<1>1. /\ UNCHANGED <<phase, setting, telling, app, attached>>
      /\ entry' = [entry EXCEPT !.status = FALSE, !.subscribers = alive]
      /\ channel' = [c \in Channel |-> IF c \in alive
                       THEN [channel[c] EXCEPT !.queue = q(c)] ELSE channel[c]]
  BY DEF ForwardStatus
<1>2. ASSUME NEW c \in Channel, c \in alive
      PROVE  /\ channel[c] \in ChannelState
             /\ c = app.events /\ telling[c] = "nothing"
             /\ q(c) \in Seq(Event)
             /\ Len(q(c)) \in Nat \ {0}
             /\ q(c)[Len(q(c))] = "status"
             /\ \A i \in 1 .. Len(q(c)) - 1 : q(c)[i] \notin Final
  <2>1. /\ channel[c] \in ChannelState
        /\ c = app.events /\ telling[c] = "nothing"
    BY <1>2, TypesOfState DEF BootstrapInv, Receivers, Waiting
  <2>2. \A i \in 1 .. Len(channel[c].queue) : channel[c].queue[i] \notin Final
    BY <1>2 DEF BootstrapInv, FinalEventIsLast
  <2>3. channel[c].queue \in Seq(Event) /\ "status" \in Event
    BY <2>1 DEF ChannelState, Event
  <2>4. QED
    BY <2>1, <2>2, <2>3, SendShape
<1>3. /\ entry'.state = entry.state
      /\ entry'.subscribers = alive
      /\ alive \subseteq entry.subscribers
      /\ entry' \in [state : {"none", "loading", "ready", "failed"}, preference : Enabled,
                     subscribers : SUBSET Channel, status : BOOLEAN]
  BY <1>1 DEF BootstrapInv, BootstrapTypeOK
<1> HIDE DEF q
<1>4. ASSUME NEW c \in Channel
      PROVE  /\ channel'[c] \in ChannelState
             /\ channel'[c].open = channel[c].open
             /\ channel'[c].worker = channel[c].worker
             /\ channel'[c].queue = IF c \in alive THEN q(c) ELSE channel[c].queue
  <2>1. CASE c \in alive
    <3>1. channel'[c] = [channel[c] EXCEPT !.queue = q(c)]
      BY <1>1, <2>1
    <3>2. QED
      BY <1>2, <2>1, <3>1 DEF ChannelState
  <2>2. CASE c \notin alive
    BY <1>1, <2>2, TypesOfState
  <2>3. QED
    BY <2>1, <2>2
<1>5. channel' \in [Channel -> ChannelState]
  <2>1. channel' = [c \in Channel |-> channel'[c]]
    BY <1>1
  <2>2. QED
    BY <1>4, <2>1
<1> HIDE DEF alive
<1>6. BootstrapTypeOK'
  BY <1>1, <1>3, <1>5 DEF BootstrapInv, BootstrapTypeOK, ChannelState, Event
<1>7. Fresh'
  BY <1>1, <1>3, <1>4 DEF BootstrapInv, Fresh
<1>8. Receivers'
  BY <1>1, <1>4, TypesOfState DEF BootstrapInv, Receivers, alive
<1>9. Attaching'
  <2>1. app.attaching # "no" => app.events \notin alive
    BY <1>3 DEF BootstrapInv, Attaching
  <2>2. QED
    BY <1>1, <1>3, <1>4, <2>1, TypesOfState DEF BootstrapInv, Attaching
<1>10. Waiting'
  BY <1>1, <1>3, <1>4 DEF BootstrapInv, Waiting
<1>11. FinalEventIsLast'
  <2>1. ASSUME NEW c \in Channel, c \in alive
        PROVE  \A i \in 1 .. Len(q(c)) : q(c)[i] \notin Final
    BY <1>2, <2>1 DEF Final
  <2>2. QED
    BY <1>1, <1>3, <1>4, <2>1 DEF BootstrapInv, FinalEventIsLast
<1>12. Handed'
  <2>1. ASSUME NEW c \in Channel, c \in alive
        PROVE  \A i \in 1 .. Len(q(c)) : q(c)[i] # "ready"
    BY <1>2, <2>1 DEF Final
  <2>2. QED
    BY <1>4, <2>1 DEF BootstrapInv, Handed
<1>13. Session'
  BY <1>1 DEF BootstrapInv, Session
<1>14. PanelTellsTruth'
  BY <1>1, <1>4 DEF BootstrapInv, BootstrapTypeOK, PanelTellsTruth, Channel
<1>15. WaitingIsRemembered'
  <2>1. app.events # 0 /\ app.events \in entry.subscribers => app.events \in alive
    BY TypesOfState DEF BootstrapInv, Receivers, alive
  <2>2. ASSUME NEW c \in Channel, Told(c)
        PROVE  Told(c)'
    <3>1. c \notin alive
      BY <1>3, <2>2 DEF BootstrapInv, FinalEventIsLast, Told
    <3>2. QED
      BY <1>4, <2>2, <3>1 DEF Told
  <2>3. QED
    BY <1>1, <1>3, <2>1, <2>2, TypesOfState DEF BootstrapInv, WaitingIsRemembered
<1>16. QED
  BY <1>6, <1>7, <1>8, <1>9, <1>10, <1>11, <1>12, <1>13, <1>14, <1>15 DEF BootstrapInv

LEMMA QueueReplaced ==
  ASSUME NEW r \in ChannelState, NEW s \in Seq(Event)
  PROVE  /\ [r EXCEPT !.queue = s] \in ChannelState
         /\ [r EXCEPT !.queue = s].queue = s
         /\ [r EXCEPT !.queue = s].open = r.open
         /\ [r EXCEPT !.queue = s].worker = r.worker
  BY DEF ChannelState

\* A status is taken from the queue of the session.
LEMMA PollStatusKeeps ==
  ASSUME BootstrapInv, app.open, app.attaching = "no", NEW c \in Channel, c = app.events,
         channel[c].queue # <<>>, Head(channel[c].queue) = "status",
         app' = [app EXCEPT !.panel = "loading"],
         channel' = [channel EXCEPT ![c].queue = Tail(channel[c].queue)],
         UNCHANGED <<phase, setting, entry, telling, attached>>
  PROVE  BootstrapInv'
<1> DEFINE q == channel[c].queue
           rest == Tail(channel[c].queue)
<1>1. /\ channel[c] \in ChannelState /\ q \in Seq(Event)
      /\ app \in AppState /\ app.tx = 0
      /\ channel[c].open
  BY TypesOfState DEF BootstrapInv, BootstrapTypeOK, AppState, ChannelState, Session, Receivers
<1>2. /\ rest \in Seq(Event)
      /\ Len(rest) = Len(q) - 1
      /\ \A i \in 1 .. Len(rest) : rest[i] = q[i + 1]
      /\ Len(q) \in Nat \ {0}
      /\ q[1] = "status"
  BY <1>1, HeadTailProperties, EmptySeq
<1> HIDE DEF q, rest
<1>3. /\ channel' \in [Channel -> ChannelState]
      /\ \A d \in Channel : /\ channel'[d].open = channel[d].open
                            /\ channel'[d].worker = channel[d].worker
      /\ \A d \in Channel \ {c} : channel'[d] = channel[d]
      /\ channel'[c].queue = rest
  <2>1. channel' = [channel EXCEPT ![c].queue = rest]
    BY DEF rest
  <2>2. /\ channel'[c] = [channel[c] EXCEPT !.queue = rest]
        /\ \A d \in Channel \ {c} : channel'[d] = channel[d]
        /\ channel'[c] \in ChannelState => channel' \in [Channel -> ChannelState]
    BY <2>1, TypesOfState
  <2>3. /\ channel'[c] \in ChannelState /\ channel'[c].queue = rest
        /\ channel'[c].open = channel[c].open /\ channel'[c].worker = channel[c].worker
    <3>1. channel'[c] = [channel[c] EXCEPT !.queue = rest]
      BY <2>2
    <3>2. channel[c] \in ChannelState /\ rest \in Seq(Event)
      BY <1>1, <1>2
    <3>3. /\ [channel[c] EXCEPT !.queue = rest] \in ChannelState
          /\ [channel[c] EXCEPT !.queue = rest].queue = rest
          /\ [channel[c] EXCEPT !.queue = rest].open = channel[c].open
          /\ [channel[c] EXCEPT !.queue = rest].worker = channel[c].worker
      BY <3>2, QueueReplaced
    <3>4. QED
      BY <3>1, <3>3
  <2>4. QED
    BY <2>2, <2>3
<1>4. /\ app' \in AppState /\ app'.open /\ app'.attaching = "no"
      /\ app'.events = c /\ app'.tx = 0 /\ app'.panel = "loading"
  BY <1>1 DEF AppState
<1>5. BootstrapTypeOK'
  BY <1>3, <1>4 DEF BootstrapInv, BootstrapTypeOK, ChannelState, Event, AppState
<1>6. Fresh'
  BY <1>3 DEF BootstrapInv, Fresh
<1>7. Receivers'
  BY <1>1, <1>3, <1>4 DEF BootstrapInv, Receivers
<1>8. Attaching'
  BY <1>4 DEF Attaching
<1>9. Waiting'
  BY <1>3 DEF BootstrapInv, Waiting
<1>10. FinalEventIsLast'
  <2>1. ASSUME NEW i \in 1 .. Len(rest), rest[i] \in Final
        PROVE  /\ i = Len(rest)
               /\ telling[c] = "nothing" /\ c \notin entry.subscribers
    <3>1. i + 1 \in 1 .. Len(q) /\ q[i + 1] \in Final
      BY <1>2, <2>1
    <3>2. QED
      BY <1>2, <3>1 DEF BootstrapInv, FinalEventIsLast, q
  <2>2. QED
    BY <1>3, <2>1 DEF BootstrapInv, FinalEventIsLast
<1>11. Handed'
  <2>1. ASSUME NEW i \in 1 .. Len(rest), rest[i] = "ready"
        PROVE  channel[c].worker \in Running
    <3>1. i + 1 \in 1 .. Len(q) /\ q[i + 1] = "ready"
      BY <1>2, <2>1
    <3>2. QED
      BY <3>1 DEF BootstrapInv, Handed, q
  <2>2. QED
    BY <1>3, <2>1 DEF BootstrapInv, Handed
<1>12. Session'
  BY <1>4 DEF BootstrapInv, Session
<1>13. PanelTellsTruth'
  BY <1>4 DEF PanelTellsTruth
<1>14. WaitingIsRemembered'
  <2>1. Told(c) => Told(c)'
    <3>1. ASSUME NEW i \in 1 .. Len(q), q[i] \in Final
          PROVE  i - 1 \in 1 .. Len(rest) /\ rest[i - 1] \in Final
      BY <1>2, <3>1 DEF Final
    <3>2. QED
      BY <1>3, <3>1 DEF Told, q
  <2>2. QED
    BY <1>4, <2>1 DEF BootstrapInv, WaitingIsRemembered
<1>15. QED
  BY <1>5, <1>6, <1>7, <1>8, <1>9, <1>10, <1>11, <1>12, <1>13, <1>14 DEF BootstrapInv

\* The worker that comes with a Ready event is the session's.
LEMMA PollReadyKeeps ==
  ASSUME BootstrapInv, app.open, app.attaching = "no", NEW c \in Channel, c = app.events,
         channel[c].queue # <<>>, Head(channel[c].queue) = "ready",
         app' = [app EXCEPT !.panel = "ready", !.tx = c, !.events = 0],
         channel' = Dropped(app.events),
         UNCHANGED <<phase, setting, entry, telling, attached>>
  PROVE  BootstrapInv'
<1>1. /\ channel[c] \in ChannelState /\ channel[c].queue \in Seq(Event)
      /\ app \in AppState /\ setting # "off" /\ c # 0
  BY TypesOfState DEF BootstrapInv, BootstrapTypeOK, AppState, ChannelState, Session
<1>2. channel[c].worker \in Running
  <2>1. 1 \in 1 .. Len(channel[c].queue) /\ channel[c].queue[1] = "ready"
    BY <1>1, EmptySeq, HeadTailProperties
  <2>2. QED
    BY <2>1 DEF BootstrapInv, Handed
<1>3. /\ app' \in AppState /\ app'.open /\ app'.attaching = "no"
      /\ app'.events = 0 /\ app'.tx = c /\ app'.panel = "ready"
  <2>1. 0 \in 0 .. MaxChannels /\ c \in 0 .. MaxChannels
    BY MaxChannelsAssumption DEF Channel
  <2>2. QED
    BY <1>1, <2>1 DEF AppState
<1>4. /\ channel' \in [Channel -> ChannelState]
      /\ \A d \in Channel : /\ channel'[d].queue = <<>>
                            /\ ~channel'[d].open
                            /\ channel'[d].worker = channel[d].worker
  BY DroppedShape
<1>5. Len(<<>>) = 0
  BY EmptySeq
<1>6. BootstrapTypeOK'
  BY <1>3, <1>4 DEF BootstrapInv, BootstrapTypeOK, ChannelState, Event, AppState
<1>7. Fresh'
  BY <1>4 DEF BootstrapInv, Fresh
<1>8. Receivers'
  BY <1>3, <1>4 DEF Receivers
<1>9. Attaching'
  BY <1>3 DEF Attaching
<1>10. Waiting'
  BY <1>4 DEF BootstrapInv, Waiting
<1>11. FinalEventIsLast'
  BY <1>4, <1>5 DEF FinalEventIsLast
<1>12. Handed'
  BY <1>4, <1>5 DEF Handed
<1>13. Session'
  BY <1>1, <1>3 DEF BootstrapInv, Session
<1>14. PanelTellsTruth'
  BY <1>1, <1>2, <1>3, <1>4 DEF PanelTellsTruth, Running
<1>15. WaitingIsRemembered'
  BY <1>3 DEF BootstrapInv, WaitingIsRemembered
<1>16. QED
  BY <1>6, <1>7, <1>8, <1>9, <1>10, <1>11, <1>12, <1>13, <1>14, <1>15 DEF BootstrapInv

LEMMA PollKeeps ==
  ASSUME BootstrapInv, Poll
  PROVE  BootstrapInv'
<1> DEFINE c == app.events
<1>1. /\ app.open /\ app.attaching = "no"
      /\ c \in Channel
      /\ channel[c].queue # <<>>
      /\ UNCHANGED <<phase, setting, entry, telling, attached>>
  BY TypesOfState DEF Poll
<1>2. CASE /\ Head(channel[c].queue) = "status"
           /\ app' = [app EXCEPT !.panel = "loading"]
           /\ channel' = [channel EXCEPT ![c].queue = Tail(@)]
  BY <1>1, <1>2, PollStatusKeeps
<1>3. CASE /\ Head(channel[c].queue) = "ready"
           /\ app' = [app EXCEPT !.panel = "ready", !.tx = c, !.events = 0]
           /\ channel' = Dropped(c)
  BY <1>1, <1>3, PollReadyKeeps
<1>4. CASE /\ Head(channel[c].queue) = "failed"
           /\ app' = [NoApp EXCEPT !.open = TRUE]
           /\ channel' = Dropped(c)
  <2>1. DisableSemanticRuntime
    BY <1>1, <1>4 DEF DisableSemanticRuntime
  <2>2. setting' \in Enabled \union {"off"}
    BY <1>1 DEF BootstrapInv, BootstrapTypeOK
  <2>3. QED
    BY <1>1, <2>1, <2>2, TurnedOffKeeps
<1>5. QED
  BY <1>1, <1>2, <1>3, <1>4 DEF Poll

-----------------------------------------------------------------------------
(* The theorems.                                                           *)

LEMMA BootstrapInitially ==
  ASSUME Init
  PROVE  BootstrapInv
<1>1. /\ phase = "idle" /\ setting \in Enabled \union {"off"}
      /\ entry = NoEntry /\ telling = Nothing /\ app = NoApp /\ attached = 0
      /\ channel = [c \in Channel |-> Unused]
  BY DEF Init, PreparationInit
<1>2. /\ Unused \in ChannelState /\ Unused.queue = <<>> /\ Len(Unused.queue) = 0
      /\ ~Unused.open /\ Unused.worker = "none"
  BY EmptySeq DEF Unused, ChannelState
<1>3. BootstrapTypeOK
  BY <1>1, <1>2, MaxChannelsAssumption
     DEF BootstrapTypeOK, ChannelState, Event, Phase, NoEntry, NoApp, Nothing, Enabled
<1>4. QED
  BY <1>1, <1>2, <1>3
     DEF BootstrapInv, Fresh, Receivers, Attaching, Waiting, FinalEventIsLast, Handed, Session,
         PanelTellsTruth, WaitingIsRemembered, NoEntry, NoApp, Nothing

LEMMA BootstrapStep ==
  ASSUME BootstrapInv, [Next]_vars
  PROVE  BootstrapInv'
<1>1. CASE UNCHANGED vars
  BY <1>1
     DEF vars, bootstrapVars, BootstrapInv, BootstrapTypeOK, Fresh, Receivers, Attaching, Waiting,
         FinalEventIsLast, Handed, Session, PanelTellsTruth, WaitingIsRemembered, Told
<1>2. CASE OpenSession \/ CloseSession \/ AttachFind \/ AttachEntry \/ Poll
  BY <1>2, OpenSessionKeeps, CloseSessionKeeps, AttachFindKeeps, AttachEntryKeeps, PollKeeps
<1>3. CASE \E preference \in Enabled \union {"off"} : SaveRuntime(preference)
  BY <1>3, SaveRuntimeKeeps
<1>4. CASE ReportStatus \/ PrepareEnds \/ ForwardStatus \/ Finish \/ ProcessEnds
  BY <1>4, ReportStatusKeeps, PrepareEndsKeeps, ForwardStatusKeeps, FinishKeeps, ProcessEndsKeeps
<1>5. CASE \E c \in Channel : TellSubscriber(c) \/ ListWorker(c) \/ WorkerEnds(c)
  BY <1>5, TellSubscriberKeeps, ListWorkerKeeps, WorkerEndsKeeps
<1>6. QED
  BY <1>1, <1>2, <1>3, <1>4, <1>5 DEF Next

\* The inductive invariant: where each channel is on its way from the entry to
\* the session (SharedBootstrapEntry, broadcast_ready, broadcast_failed and
\* poll_semantic_bootstrap together).
THEOREM BootstrapInvariance == Spec => []BootstrapInv
  BY BootstrapInitially, BootstrapStep, PTL DEF Spec

\* The variables of the coordinator keep their types.
THEOREM BootstrapTypeCorrect == Spec => []BootstrapTypeOK
<1>1. BootstrapInv => BootstrapTypeOK
  BY DEF BootstrapInv
<1>2. QED
  BY <1>1, BootstrapInvariance, PTL

\* A session is told Ready or Failed at most once and after every status, for
\* any number of attachments and restarts (broadcast_ready, broadcast_failed,
\* attach_to_entry).
THEOREM FinalEventComesLast == Spec => []FinalEventIsLast
<1>1. BootstrapInv => FinalEventIsLast
  BY DEF BootstrapInv
<1>2. QED
  BY <1>1, BootstrapInvariance, PTL

\* The panel says ready exactly when the session holds a worker that runs
\* (poll_semantic_bootstrap, disable_semantic_runtime, run_app).
THEOREM PanelStaysTrue == Spec => []PanelTellsTruth
<1>1. BootstrapInv => PanelTellsTruth
  BY DEF BootstrapInv
<1>2. QED
  BY <1>1, BootstrapInvariance, PTL

\* No session that waits is forgotten: it is a subscriber of a preparation that
\* was started, or it is being told, or the final event is in its queue. This is
\* the safety half of LoadingEnds (attach_to_entry against the broadcasts).
THEOREM NobodyIsForgotten == Spec => []WaitingIsRemembered
<1>1. BootstrapInv => WaitingIsRemembered
  BY DEF BootstrapInv
<1>2. QED
  BY <1>1, BootstrapInvariance, PTL
=============================================================================
