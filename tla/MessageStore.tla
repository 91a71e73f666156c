--------------------------- MODULE MessageStore ---------------------------
(***************************************************************************)
(* How the server takes in a text: the Twilio webhook, the worker that     *)
(* copies the attachments of an MMS, the S3 bucket the messages are logged *)
(* to, the SQLite database, which each start rebuilds from the bucket, and *)
(* the publish to the displays.  Twilio delivers a text again until it has *)
(* an answer, any call to S3, SQLite or the broker may fail, and the       *)
(* server may crash between two steps.                                     *)
(*                                                                         *)
(* Each delivery makes at most one message, with an id of its own, so a    *)
(* message is named by its delivery.  A webhook with neither body nor      *)
(* media, which is answered 204 and changes nothing, is left out.          *)
(***************************************************************************)
EXTENDS Naturals, FiniteSets

CONSTANTS
    Sms,            \* texts without media
    Mms,            \* texts with media
    Attachment,     \* what is attached to the MMS
    AttachmentsOf,  \* MMS -> its attachments
    TypeOf,         \* attachment -> its media type
    None,
    Pending,        \* the result of a download under way
    Failed,         \* the result of a download that failed
    Threads,        \* gunicorn threads
    Workers,        \* max_workers of _MMS_EXECUTOR
    Budget,         \* text -> deliveries Twilio makes at most, the first included
    MaxDeliveries,  \* bound on the deliveries of all texts together
    LastSecond,     \* bound on the clock
    MaxCrashes      \* bound on the crashes

Text == Sms \union Mms
Delivery == UNION {{t} \X (1 .. Budget[t]) : t \in Text}
Second == 0 .. LastSecond
\* Where a rebuild may stop: before any second, or after the last.
ReadUpTo == 0 .. LastSecond + 1
Types == {TypeOf[a] : a \in Attachment}

ASSUME TextAssumption ==
    /\ Sms \intersect Mms = {}
    /\ AttachmentsOf \in [Mms -> SUBSET Attachment]
    /\ None \notin Delivery /\ None \notin Attachment
    /\ Pending # Failed /\ {Pending, Failed} \intersect Nat = {}
ASSUME BoundAssumption ==
    /\ {Threads, Workers} \subseteq Nat \ {0}
    /\ Budget \in [Text -> Nat \ {0}]
    /\ {MaxDeliveries, LastSecond, MaxCrashes} \subseteq Nat

VARIABLES
    now,        \* the clock of the server, in seconds
    sent,       \* Twilio: deliveries made of each text
    answered,   \* Twilio: texts it has a 200 for
    request,    \* deliveries whose request a gunicorn thread serves
    step,       \* where the processing of a delivery stands
    slot,       \* _INBOUND_DEDUPE: the delivery in flight for each SID
    at,         \* received_at of the message a delivery makes
    copied,     \* results of _download_media_in_parallel, by attachment
    log,        \* S3 messages/: the content of each one-second key
    bucket,     \* S3 media/: the content of each type and one-second key
    db,         \* SQLite: the messages stored
    published,  \* messages handed to the broker
    refused,    \* messages whose write to S3 failed
    up,         \* the server runs
    restored,   \* the first second whose key the latest rebuild did not read
    crashes     \* crashes so far

vars == <<now, sent, answered, request, step, slot, at, copied, log, bucket,
          db, published, refused, up, restored, crashes>>

\* Kinds of steps of a delivery, in their order.
Running == {"queued", "download", "log", "put", "publish", "release"}
Key(a, s) == <<TypeOf[a], s>>
\* The deliveries made so far.
Made == {d \in Delivery : d[2] <= sent[d[1]]}

----------------------------------------------------------------------------
\* Twilio and the clock.

Tick ==
    /\ now < LastSecond
    /\ now' = now + 1
    /\ UNCHANGED <<sent, answered, request, step, slot, at, copied, log,
                   bucket, db, published, refused, up, restored,
                   crashes>>

\* A mutant of Delivers: the retry budget is not counted.
DeliversAgain(t) ==
    /\ t \notin answered
    /\ Cardinality(Made) < MaxDeliveries
    /\ sent[t] < Budget[t] + 1
    /\ sent' = [sent EXCEPT ![t] = @ + 1]

\* Twilio delivers what it has no answer for, whether or not an earlier
\* delivery of the text is still served.
Delivers(t) ==
    /\ t \notin answered
    /\ Cardinality(Made) < MaxDeliveries
    /\ sent[t] < Budget[t]
    /\ sent' = [sent EXCEPT ![t] = @ + 1]

\* A thread takes the request up.
Opens(d) ==
    /\ up
    /\ Cardinality(request) < Threads
    /\ request' = request \union {d}

\* The server is down, or get_config raised and Flask answered 500.
NotServed(t) ==
    /\ Delivers(t)
    /\ UNCHANGED <<now, answered, request, step, slot, at, copied, log,
                   bucket, db, published, refused, up, restored,
                   crashes>>

ReceiveSms(t) ==
    LET d == <<t, sent[t] + 1>> IN
    /\ Delivers(t)
    /\ Opens(d)
    /\ step' = [step EXCEPT ![d] = "log"]
    /\ at' = [at EXCEPT ![d] = now]
    /\ UNCHANGED <<now, answered, slot, copied, log, bucket, db, published,
                   refused, up, restored,
                   crashes>>

\* A mutant of ReceiveMms: no guard.
ReceiveMmsUnguarded(t) ==
    LET d == <<t, sent[t] + 1>> IN
    /\ Delivers(t)
    /\ Opens(d)
    /\ slot' = [slot EXCEPT ![t] = d]
    /\ step' = [step EXCEPT ![d] = "queued"]
    /\ UNCHANGED <<now, answered, at, copied, log, bucket, db, published,
                   refused, up, restored,
                   crashes>>

\* The guard is tested and set under one lock; a retry of a text in flight is
\* answered and nothing else.
ReceiveMms(t) ==
    LET d == <<t, sent[t] + 1>> IN
    /\ Delivers(t)
    /\ Opens(d)
    /\ \/ /\ slot[t] # None
          /\ UNCHANGED <<slot, step>>
       \/ /\ slot[t] = None
          /\ slot' = [slot EXCEPT ![t] = d]
          /\ step' = [step EXCEPT ![d] = "queued"]
    /\ UNCHANGED <<now, answered, at, copied, log, bucket, db, published,
                   refused, up, restored,
                   crashes>>

\* The TwiML goes out: of an SMS after its processing, of an MMS beside it.
\* Twilio may have given up on the connection.
Answer(d) ==
    /\ up
    /\ d \in request
    /\ d[1] \in Sms => step[d] = "end"
    /\ request' = request \ {d}
    /\ answered' \in {answered, answered \union {d[1]}}
    /\ UNCHANGED <<now, sent, step, slot, at, copied, log, bucket, db,
                   published, refused, up, restored,
                   crashes>>

----------------------------------------------------------------------------
\* The worker of an MMS.

\* A thread of the pool takes the job up.
StartWorker(d) ==
    /\ step[d] = "queued"
    /\ Cardinality({e \in Delivery : e[1] \in Mms
                      /\ step[e] \in Running \ {"queued"}}) < Workers
    /\ step' = [step EXCEPT ![d] = "download"]
    /\ UNCHANGED <<now, sent, answered, request, slot, at, copied, log,
                   bucket, db, published, refused, up, restored,
                   crashes>>

\* A mutant of CopyAttachment: the results are taken in the order in which the
\* downloads end, not in that of the attachments.
CopyAttachmentAsCompleted(d, a) ==
    /\ step[d] = "download"
    /\ \E b \in AttachmentsOf[d[1]] :
        /\ copied[d][b] = Pending
        /\ \/ /\ copied' = [copied EXCEPT ![d][b] = Failed]
              /\ UNCHANGED bucket
           \/ /\ copied' = [copied EXCEPT ![d][b] = now]
              /\ bucket' = [bucket EXCEPT ![Key(a, now)] = a]
    /\ UNCHANGED <<now, sent, answered, request, step, slot, at, log, db,
                   published, refused, up, restored,
                   crashes>>

\* log_media: the fetch from Twilio or the upload may fail, and the key names
\* the type and the second only.
CopyAttachment(d, a) ==
    /\ step[d] = "download"
    /\ copied[d][a] = Pending
    /\ \/ /\ copied' = [copied EXCEPT ![d][a] = Failed]
          /\ UNCHANGED bucket
       \/ /\ copied' = [copied EXCEPT ![d][a] = now]
          /\ bucket' = [bucket EXCEPT ![Key(a, now)] = a]
    /\ UNCHANGED <<now, sent, answered, request, step, slot, at, log, db,
                   published, refused, up, restored,
                   crashes>>

\* All downloads ended: the message is made of the attachments that survived.
MakeMessage(d) ==
    /\ step[d] = "download"
    /\ \A a \in AttachmentsOf[d[1]] : copied[d][a] # Pending
    /\ at' = [at EXCEPT ![d] = now]
    /\ step' = [step EXCEPT ![d] = "log"]
    /\ UNCHANGED <<now, sent, answered, request, slot, copied, log, bucket,
                   db, published, refused, up, restored,
                   crashes>>

----------------------------------------------------------------------------
\* What the handler and the worker have in common.

\* Only the worker of an MMS has a finally block.
Ends(d) == IF d[1] \in Mms THEN "release" ELSE "end"

\* A mutant of LogMessage: the file is named after the time of the write.
LogMessageNow(d) ==
    /\ step[d] = "log"
    /\ step' = [step EXCEPT ![d] = "put"]
    /\ \/ log' = [log EXCEPT ![now] = d] /\ UNCHANGED refused
       \/ refused' = refused \union {d} /\ UNCHANGED log
    /\ UNCHANGED <<now, sent, answered, request, slot, at, copied, bucket,
                   db, published, up, restored, crashes>>

\* s3.log_message writes the key of the second; a failure is only logged.
LogMessage(d) ==
    /\ step[d] = "log"
    /\ step' = [step EXCEPT ![d] = "put"]
    /\ \/ log' = [log EXCEPT ![at[d]] = d] /\ UNCHANGED refused
       \/ refused' = refused \union {d} /\ UNCHANGED log
    /\ UNCHANGED <<now, sent, answered, request, slot, at, copied, bucket,
                   db, published, up, restored, crashes>>

\* A mutant of PutMessage: a failed insert does not keep the message back.
PutMessageAnyway(d) ==
    /\ step[d] = "put"
    /\ db' \in {db, db \union {d}}
    /\ step' = [step EXCEPT ![d] = "publish"]
    /\ UNCHANGED <<now, sent, answered, request, slot, at, copied, log,
                   bucket, published, refused, up, restored,
                   crashes>>

\* sqlite.put_message; when it raises, the publish is skipped.
PutMessage(d) ==
    /\ step[d] = "put"
    /\ \/ /\ db' = db \union {d}
          /\ step' = [step EXCEPT ![d] = "publish"]
       \/ /\ step' = [step EXCEPT ![d] = Ends(d)]
          /\ UNCHANGED db
    /\ UNCHANGED <<now, sent, answered, request, slot, at, copied, log,
                   bucket, published, refused, up, restored,
                   crashes>>

\* publish_envelope, which may raise as well.
PublishMessage(d) ==
    /\ step[d] = "publish"
    /\ published' \in {published, published \union {d}}
    /\ step' = [step EXCEPT ![d] = Ends(d)]
    /\ UNCHANGED <<now, sent, answered, request, slot, at, copied, log,
                   bucket, db, refused, up, restored,
                   crashes>>

\* A mutant of ReleaseSlot: the entry stays in the table.
ReleaseSlotNot(d) ==
    /\ step[d] = "release"
    /\ step' = [step EXCEPT ![d] = "end"]
    /\ UNCHANGED <<now, sent, answered, request, slot, at, copied, log,
                   bucket, db, published, refused, up, restored,
                   crashes>>

\* The finally block: the entry is removed if it is still that of the worker.
ReleaseSlot(d) ==
    /\ step[d] = "release"
    /\ step' = [step EXCEPT ![d] = "end"]
    /\ slot' = [slot EXCEPT ![d[1]] = IF @ = d THEN None ELSE @]
    /\ UNCHANGED <<now, sent, answered, request, at, copied, log, bucket,
                   db, published, refused, up, restored,
                   crashes>>

----------------------------------------------------------------------------
\* The process.

\* Requests, jobs and the guard go with the process.
Crash ==
    /\ up
    /\ crashes < MaxCrashes
    /\ crashes' = crashes + 1
    /\ up' = FALSE
    /\ request' = {}
    /\ step' = [d \in Delivery |-> IF step[d] \in Running THEN "end"
                                                          ELSE step[d]]
    /\ slot' = [t \in Mms |-> None]
    /\ UNCHANGED <<now, sent, answered, at, copied, log, bucket, db,
                   published, refused, restored>>

\* A mutant of Rebuild: the wiped database is taken for the rebuilt one.
RebuildNothing ==
    /\ ~up
    /\ up' = TRUE
    /\ restored' = LastSecond + 1
    /\ db' = {}
    /\ UNCHANGED <<now, sent, answered, request, step, slot, at, copied, log,
                   bucket, published, refused, crashes>>

\* rebuild_from_s3: the database is wiped and filled from the log in the
\* order of the keys, up to a call that fails, which may be the first.
Rebuild ==
    /\ ~up
    /\ up' = TRUE
    /\ restored' \in ReadUpTo
    /\ db' = {log[s] : s \in 0 .. restored' - 1} \ {None}
    /\ UNCHANGED <<now, sent, answered, request, step, slot, at, copied, log,
                   bucket, published, refused, crashes>>

----------------------------------------------------------------------------
Init ==
    /\ now = 0
    /\ sent = [t \in Text |-> 0]
    /\ answered = {}
    /\ request = {}
    /\ step = [d \in Delivery |-> "none"]
    /\ slot = [t \in Mms |-> None]
    /\ at = [d \in Delivery |-> 0]
    /\ copied = [d \in Delivery |-> [a \in Attachment |-> Pending]]
    /\ log = [s \in Second |-> None]
    /\ bucket = [k \in Types \X Second |-> None]
    /\ db = {}
    /\ published = {}
    /\ refused = {}
    /\ up = TRUE
    /\ restored = LastSecond + 1
    /\ crashes = 0

Works(d) ==
    \/ StartWorker(d)
    \/ d[1] \in Mms /\ \E a \in AttachmentsOf[d[1]] : CopyAttachment(d, a)
    \/ MakeMessage(d)
    \/ LogMessage(d)
    \/ PutMessage(d)
    \/ PublishMessage(d)
    \/ ReleaseSlot(d)

Next ==
    \/ Tick
    \/ \E t \in Text : NotServed(t)
    \/ \E t \in Sms : ReceiveSms(t)
    \/ \E t \in Mms : ReceiveMms(t)
    \/ \E d \in Delivery : Answer(d) \/ Works(d)
    \/ Crash
    \/ Rebuild

Spec == Init /\ [][Next]_vars

\* Every network call of a step has a timeout, so a thread that is at a step
\* makes it; nothing is assumed of Twilio, the clock and the crashes.
FairSpec == Spec /\ \A d \in Delivery : WF_vars(Works(d))

----------------------------------------------------------------------------
TypeOK ==
    /\ now \in Second
    /\ sent \in [Text -> Nat]
    /\ answered \subseteq Text
    /\ request \subseteq Delivery
    /\ step \in [Delivery -> Running \union {"none", "end"}]
    /\ slot \in [Mms -> Delivery \union {None}]
    /\ at \in [Delivery -> Second]
    /\ copied \in [Delivery -> [Attachment -> Second \union {Pending, Failed}]]
    /\ log \in [Second -> Delivery \union {None}]
    /\ bucket \in [Types \X Second -> Attachment \union {None}]
    /\ db \subseteq Delivery
    /\ published \subseteq Delivery
    /\ refused \subseteq Delivery
    /\ up \in BOOLEAN
    /\ restored \in ReadUpTo
    /\ crashes \in 0 .. MaxCrashes

\* What a display shows can be restored: a published message is in the log,
\* unless S3 refused it or another message of the same second has taken its
\* key, whatever crashed in between (main.py:531-541, 690-710).
ShownIsLogged ==
    \A d \in published \ refused :
        \/ log[at[d]] = d
        \/ log[at[d]] # None /\ at[log[at[d]]] = at[d]

\* A display that seeds from the running server finds what was published, in
\* whichever process that was: in the database, unless the log has lost it or
\* the rebuild was cut short before it (sqlite.py:400-508).
NotForgotten ==
    up => \A d \in published \ refused :
              d \in db \/ log[at[d]] # d \/ at[d] >= restored

\* A display that starts later than a publish finds the message in the
\* database, as long as the server has not been restarted: nothing is
\* published that is not stored (main.py:535-540).
StoredFirst == [][published' \ published \subseteq db]_vars

\* What a display is sent has its media in the bucket, of the right type,
\* although downloads run beside each other and fail one by one
\* (main.py:727-779).
MediaIsThere ==
    \A d \in published : d[1] \in Mms =>
        \A a \in AttachmentsOf[d[1]] :
            copied[d][a] \in Second =>
                /\ bucket[Key(a, copied[d][a])] # None
                /\ TypeOf[bucket[Key(a, copied[d][a])]] = TypeOf[a]

\* The guard: two deliveries of one MMS are never processed beside each other,
\* across retries, releases and crashes (main.py:548-569, 704-724).
OneWorkerPerText ==
    \A d, e \in Delivery :
        d[1] = e[1] /\ d[1] \in Mms /\ {step[d], step[e]} \subseteq Running
            => d = e

\* The guard never locks a text out: an entry is removed by its worker,
\* whatever fails on the way (main.py:709-724).
GuardIsReleased == \A t \in Mms : slot[t] # None ~> slot[t] = None

===========================================================================
