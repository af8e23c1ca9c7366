---------------------------- MODULE LiveSession ----------------------------
(***************************************************************************)
(* One session on its way from the CLI (packages/cli/src) through the API  *)
(* (packages/api/src/app.ts) to a dashboard (useLiveProgress.ts): progress *)
(* while it is searched, the local file, the upload, the event stream.  Or *)
(* a demo session, which the API makes up itself.                          *)
(*                                                                         *)
(* Abstractions.  An event carries the number of finished runs only.  The  *)
(* 250 ms between posts are a flag that time clears.  A request fails      *)
(* before the API reads it, or after; validation and the token are reasons *)
(* for a refusal.                                                          *)
(***************************************************************************)
EXTENDS Naturals, Sequences, FiniteSets

CONSTANTS
  Total,           \* config.iterations
  MaxDisconnects,  \* bound: how often the event stream breaks
  None

VARIABLES
  source,     \* "cli" or "demo"
  requireUpload,
  cli,        \* where executeSession (or the demo) is
  done,       \* runs counted by the orchestrator, or ticks of the demo
  justSent,   \* a progress post went out within the interval
  pending,    \* value pendingProgress will send, None when no timer is armed
  posts,      \* progress posts under way
  sent,       \* history: the last value posted
  saved,      \* the session is in a local file
  upload,     \* POST /sessions: "none", "sent", "writing", "stored", "refused"
  stream,     \* the browser's EventSource
  subscribed, \* the API's listener for that stream
  wire,       \* events on the stream
  shown,      \* done and status the dashboard shows, None before the first event
  breaks      \* bound: disconnects so far

cliVars == <<cli, done, justSent, pending, posts, sent, saved>>
dashboardVars == <<stream, subscribed, wire, shown, breaks>>
liveVars == <<source, requireUpload, cliVars, upload, dashboardVars>>

Event == [type : {"progress", "completed"}, done : 0..Total]
Over == {"uploaded", "kept", "failed"}

-----------------------------------------------------------------------------
Init ==
  /\ source \in {"cli", "demo"}
  /\ requireUpload \in BOOLEAN
  /\ cli = "searching" /\ done = 0
  /\ justSent = FALSE /\ pending = None /\ posts = {} /\ sent = None
  /\ saved = FALSE /\ upload = "none"
  /\ stream = "connecting" /\ subscribed = FALSE /\ wire = <<>>
  /\ shown = None /\ breaks = 0

(* bus.emit('progress', ...): every open stream writes the event.          *)
Publish(event) == wire' = IF subscribed THEN Append(wire, event) ELSE wire

-----------------------------------------------------------------------------
(* The CLI                                                                 *)

Send(v) ==
  /\ posts' = posts \cup {v}
  /\ sent' = v
  /\ justSent' = TRUE

(* reportProgress(): now, or when the interval is over.                    *)
Report(v) ==
  IF justSent THEN pending' = v /\ UNCHANGED <<posts, sent, justSent>>
              ELSE pending' = None /\ Send(v)

(* onRunComplete.                                                          *)
RunCounted ==
  /\ source = "cli" /\ cli = "searching" /\ done < Total
  /\ done' = done + 1
  /\ Report(done + 1)
  /\ UNCHANGED <<source, requireUpload, cli, saved, upload, dashboardVars>>

IntervalOver ==
  /\ justSent
  /\ justSent' = FALSE
  /\ UNCHANGED <<source, requireUpload, cli, done, pending, posts, sent, saved, upload,
                 dashboardVars>>

PendingFires ==
  /\ pending # None /\ ~justSent
  /\ Send(pending)
  /\ pending' = None
  /\ UNCHANGED <<source, requireUpload, cli, done, saved, upload, dashboardVars>>

(* runSession settles, after any number of runs (early exit, duplicates)   *)
(* or with an error; flushProgress() drops what was not sent.              *)
SearchEnds ==
  /\ source = "cli" /\ cli = "searching"
  /\ cli' \in {"saving", "failed"}
  /\ pending' = None
  /\ UNCHANGED <<source, requireUpload, done, justSent, posts, sent, saved, upload,
                 dashboardVars>>

(* Fault: the upload does not wait for the file.                           *)
UploadFirst ==
  /\ cli = "saving"
  /\ cli' = "uploading" /\ upload' = "sent"
  /\ UNCHANGED <<source, requireUpload, done, justSent, pending, posts, sent, saved,
                 dashboardVars>>

(* LocalSessionStore.save(), which throws or renames the file into place,  *)
(* and the JUnit report, which may throw; then the upload, when there is   *)
(* an API to upload to.                                                    *)
Save ==
  /\ cli = "saving"
  /\ \/ cli' = "failed" /\ saved' \in BOOLEAN /\ UNCHANGED upload
     \/ cli' = "kept" /\ saved' = TRUE /\ UNCHANGED upload
     \/ cli' = "uploading" /\ saved' = TRUE /\ upload' = "sent"
  /\ UNCHANGED <<source, requireUpload, done, justSent, pending, posts, sent, dashboardVars>>

Created == cli = "uploading" /\ upload = "stored"

(* 201.                                                                    *)
Uploaded ==
  /\ Created
  /\ cli' = "uploaded"
  /\ UNCHANGED <<source, requireUpload, done, justSent, pending, posts, sent, saved, upload,
                 dashboardVars>>

(* Refused, unreachable, or no answer within ten seconds, whatever the API *)
(* makes of the request: a warning, unless --require-upload.               *)
UploadFails ==
  /\ cli = "uploading"
  /\ cli' = IF requireUpload THEN "failed" ELSE "kept"
  /\ UNCHANGED <<source, requireUpload, done, justSent, pending, posts, sent, saved, upload,
                 dashboardVars>>

-----------------------------------------------------------------------------
(* The API                                                                 *)

(* POST /sessions/:id/progress, in the order of arrival.                   *)
ProgressArrives ==
  \E v \in posts :
    /\ posts' = posts \ {v}
    /\ Publish([type |-> "progress", done |-> v])
    /\ UNCHANGED <<source, requireUpload, cli, done, justSent, pending, sent, saved, upload,
                   stream, subscribed, shown, breaks>>

(* A progress post is lost or refused; nobody looks at its answer.         *)
ProgressLost ==
  \E v \in posts :
    /\ posts' = posts \ {v}
    /\ UNCHANGED <<source, requireUpload, cli, done, justSent, pending, sent, saved, upload,
                   dashboardVars>>

(* POST /sessions up to its await, or refused before.                      *)
SessionArrives ==
  /\ upload = "sent"
  /\ upload' \in {"writing", "refused"}
  /\ UNCHANGED <<source, requireUpload, cliVars, dashboardVars>>

(* The store has written: everybody who listens hears of it.               *)
Stores ==
  /\ upload = "writing" /\ source = "cli"
  /\ upload' = "stored"
  /\ Publish([type |-> "completed", done |-> done])
  /\ UNCHANGED <<source, requireUpload, cliVars, stream, subscribed, shown, breaks>>

StoreThrows ==
  /\ upload = "writing" /\ source = "cli"
  /\ upload' = "refused"
  /\ UNCHANGED <<source, requireUpload, cliVars, dashboardVars>>

(* POST /demo/run was answered 202; it publishes by itself.                *)
DemoTick ==
  /\ source = "demo" /\ cli = "searching" /\ done < Total
  /\ done' = done + 1
  /\ Publish([type |-> "progress", done |-> done + 1])
  /\ UNCHANGED <<source, requireUpload, cli, justSent, pending, posts, sent, saved, upload,
                 stream, subscribed, shown, breaks>>

(* The last tick is followed by createSession, in the same turn.           *)
DemoStores ==
  /\ source = "demo" /\ cli = "searching" /\ done = Total
  /\ cli' = "uploading" /\ upload' = "writing"
  /\ UNCHANGED <<source, requireUpload, done, justSent, pending, posts, sent, saved,
                 dashboardVars>>

(* The error of createSession is swallowed: completed all the same.        *)
DemoCompletes ==
  /\ source = "demo" /\ upload = "writing"
  /\ upload' \in {"stored", "refused"}
  /\ cli' = "uploaded"
  /\ Publish([type |-> "completed", done |-> Total])
  /\ UNCHANGED <<source, requireUpload, done, justSent, pending, posts, sent, saved,
                 stream, subscribed, shown, breaks>>

-----------------------------------------------------------------------------
(* The dashboard                                                           *)

(* GET /events: the API listens from here on, and the browser sees it open.*)
StreamOpens ==
  /\ stream = "connecting"
  /\ stream' = "open" /\ subscribed' = TRUE /\ wire' = <<>>
  /\ UNCHANGED <<source, requireUpload, cliVars, upload, shown, breaks>>

(* applyProgressEvent(): counts as they come, COMPLETED for good.          *)
ApplyProgressEvent(event) ==
  [done |-> event.done,
   status |-> IF \/ event.type = "completed"
                 \/ shown # None /\ shown.status = "COMPLETED"
                THEN "COMPLETED" ELSE "RUNNING"]

Message ==
  /\ stream = "open" /\ wire # <<>>
  /\ wire' = Tail(wire)
  /\ shown' = ApplyProgressEvent(Head(wire))
  /\ UNCHANGED <<source, requireUpload, cliVars, upload, stream, subscribed, breaks>>

(* onerror: the source is closed, with what was on the wire; the API       *)
(* forgets the listener.                                                   *)
StreamBreaks ==
  /\ stream \in {"connecting", "open"} /\ breaks < MaxDisconnects
  /\ breaks' = breaks + 1
  /\ stream' = "reconnecting" /\ subscribed' = FALSE /\ wire' = <<>>
  /\ UNCHANGED <<source, requireUpload, cliVars, upload, shown>>

(* The backoff is over.                                                    *)
Reconnect ==
  /\ stream = "reconnecting"
  /\ stream' = "connecting"
  /\ UNCHANGED <<source, requireUpload, cliVars, upload, subscribed, wire, shown, breaks>>

(* The page goes away.                                                     *)
Unmount ==
  /\ stream # "closed"
  /\ stream' = "closed" /\ subscribed' = FALSE /\ wire' = <<>>
  /\ UNCHANGED <<source, requireUpload, cliVars, upload, shown, breaks>>

-----------------------------------------------------------------------------
Cli == RunCounted \/ SearchEnds \/ Save \/ Uploaded \/ UploadFails
Timers == IntervalOver \/ PendingFires
Api == ProgressArrives \/ ProgressLost \/ SessionArrives \/ Stores \/ StoreThrows
Demo == DemoTick \/ DemoStores \/ DemoCompletes
Dashboard == StreamOpens \/ Message \/ StreamBreaks \/ Reconnect \/ Unmount

Next == Cli \/ Timers \/ Api \/ Demo \/ Dashboard

Spec == Init /\ [][Next]_liveVars

(* The search ends, files are written, requests time out; the API may be   *)
(* slow or absent for ever.                                                *)
Fairness == WF_liveVars(Cli)

-----------------------------------------------------------------------------
TypeOK ==
  /\ source \in {"cli", "demo"} /\ requireUpload \in BOOLEAN
  /\ cli \in {"searching", "saving", "uploading"} \cup Over
  /\ done \in 0..Total
  /\ justSent \in BOOLEAN
  /\ pending \in 1..Total \cup {None}
  /\ posts \subseteq 1..Total
  /\ sent \in 1..Total \cup {None}
  /\ saved \in BOOLEAN
  /\ upload \in {"none", "sent", "writing", "stored", "refused"}
  /\ stream \in {"connecting", "open", "reconnecting", "closed"}
  /\ subscribed = (stream = "open")
  /\ wire \in Seq(Event) /\ (~subscribed => wire = <<>>)
  /\ shown \in [done : 0..Total, status : {"RUNNING", "COMPLETED"}] \cup {None}
  /\ breaks \in 0..MaxDisconnects

(* "Posts progress at most every `intervalMs`, always delivering the       *)
(* latest value" (api-client.ts:61): once the search has ended, its last   *)
(* count has been posted.                                                  *)
LatestIsPosted ==
  source = "cli" /\ cli # "searching" /\ done > 0 => sent = done

(* A session that is shown COMPLETED is stored by the API and, before      *)
(* that, in a local file, with the runs that were counted; and the CLI     *)
(* calls uploaded only what is stored.  Demo sessions are excepted: they   *)
(* complete even if they could not be stored.                              *)
CompletedIsRecorded ==
  source = "cli" =>
    /\ cli = "uploaded" => upload = "stored"
    /\ upload # "none" => saved /\ cli \notin {"searching", "saving"}
    /\ shown # None /\ shown.status = "COMPLETED" => upload = "stored"

(* A slow or absent API never slows the search (api-client.ts:62,          *)
(* ARCHITECTURE.md:347): the command ends although nothing is assumed of   *)
(* the API or the network.                                                 *)
CommandEnds == source = "cli" ~> cli \in Over

=============================================================================
