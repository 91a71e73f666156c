------------------------ MODULE MessageStoreProofs ------------------------
(***************************************************************************)
(* Theorems about MessageStore, for every set of texts and attachments,    *)
(* whatever the retries, threads and crashes.                              *)
(***************************************************************************)
EXTENDS MessageStore, TLAPS

\* A delivery is a text and the number of the attempt.
LEMMA DeliveryParts ==
    /\ \A t \in Text : \A n \in 1 .. Budget[t] : <<t, n>> \in Delivery
    /\ \A d \in Delivery :
          d[1] \in Text /\ d[2] \in 1 .. Budget[d[1]] /\ d = <<d[1], d[2]>>
<1>1. ASSUME NEW t \in Text, NEW n \in 1 .. Budget[t]
      PROVE  <<t, n>> \in Delivery
    BY DEF Delivery
<1>2. ASSUME NEW d \in Delivery
      PROVE  /\ d[1] \in Text
             /\ d[2] \in 1 .. Budget[d[1]]
             /\ d = <<d[1], d[2]>>
    <2>1. PICK t \in Text : d \in {t} \X (1 .. Budget[t])
        BY DEF Delivery
    <2> QED
        BY <2>1
<1> QED
    BY <1>1, <1>2

\* The delivery a text makes next is a delivery, and has not been made.
LEMMA NextDelivery ==
    ASSUME TypeOK, NEW t \in Text, Delivers(t)
    PROVE  /\ <<t, sent[t] + 1>> \in Delivery
           /\ sent[t] \in Nat
           /\ sent' \in [Text -> Nat]
           /\ \A s \in Text : sent'[s] >= sent[s]
<1>1. /\ sent \in [Text -> Nat]
      /\ sent[t] \in Nat /\ Budget[t] \in Nat
      /\ sent[t] < Budget[t]
      /\ sent' = [sent EXCEPT ![t] = @ + 1]
    BY BoundAssumption DEF TypeOK, Delivers
<1>2. sent[t] + 1 \in 1 .. Budget[t]
    BY <1>1
<1>3. <<t, sent[t] + 1>> \in Delivery
    BY <1>2, DeliveryParts
<1>4. sent' \in [Text -> Nat] /\ \A s \in Text : sent'[s] >= sent[s]
    BY <1>1
<1> QED
    BY <1>1, <1>3, <1>4

----------------------------------------------------------------------------
\* The guard: what runs for an MMS is what its entry names.
Guarded ==
    \A d \in Delivery :
        d[1] \in Mms /\ step[d] \in Running => slot[d[1]] = d

\* Nothing runs while the server is down.
Quiet == ~up => \A d \in Delivery : step[d] \notin Running

\* What is about to be published is stored.
Stored == \A d \in Delivery : step[d] = "publish" => d \in db

\* A delivery that has not come yet has no trace, and one whose message is
\* not logged yet is in no store.
Early == {"none", "queued", "download", "log"}
Untouched ==
    /\ \A d \in Delivery : d[2] > sent[d[1]] => step[d] = "none"
    /\ \A d \in Delivery : step[d] \in Early =>
          d \notin published /\ \A s \in Second : log[s] # d

\* Each file of the log names a message of its second.
Keyed == \A s \in Second : log[s] # None => at[log[s]] = s

\* Past the log a message has a file in its second, unless S3 refused it.
Logged ==
    \A d \in Delivery :
        (step[d] \in {"put", "publish"} \/ d \in published) /\ d \notin refused
            => log[at[d]] # None

\* A key that has been kept leads to an object of the type.
Media ==
    \A d \in Delivery, a \in Attachment :
        copied[d][a] \in Second =>
            /\ bucket[Key(a, copied[d][a])] # None
            /\ TypeOf[bucket[Key(a, copied[d][a])]] = TypeOf[a]

IInv ==
    /\ TypeOK /\ Guarded /\ Quiet /\ Stored /\ Untouched /\ Keyed /\ Logged
    /\ NotForgotten /\ Media

\* Each text begins without a trace.
LEMMA InitInvariant == Init => IInv
<1> SUFFICES ASSUME Init
             PROVE  IInv
    OBVIOUS
<1> USE DEF Init
<1>1. TypeOK
    BY BoundAssumption DEF TypeOK, Second, ReadUpTo, Running
<1>2. Guarded /\ Quiet /\ Stored /\ Logged /\ NotForgotten
    BY DEF Guarded, Quiet, Stored, Logged, NotForgotten, Running
<1>3. Untouched /\ Keyed
    BY TextAssumption DEF Untouched, Keyed
<1>4. Media
    BY TextAssumption DEF Media, Second
<1> QED
    BY <1>1, <1>2, <1>3, <1>4 DEF IInv

\* What changes neither the stores nor where a delivery stands.
LEMMA OutsideStep ==
    ASSUME IInv,
           Tick \/ (\E t \in Text : NotServed(t)) \/ (\E d \in Delivery : Answer(d))
    PROVE  IInv'
<1>1. CASE Tick
    BY <1>1, BoundAssumption
       DEF Tick, IInv, TypeOK, Guarded, Quiet, Stored, Untouched, Keyed,
           Logged, NotForgotten, Media, Key, Second
<1>2. ASSUME NEW t \in Text, NotServed(t)
      PROVE  IInv'
    <2>1. /\ sent' \in [Text -> Nat]
          /\ \A s \in Text : sent'[s] >= sent[s]
          /\ \A s \in Text : sent[s] \in Nat
        BY <1>2, NextDelivery DEF NotServed, IInv, TypeOK
    <2>2. Untouched'
        BY <1>2, <2>1, DeliveryParts, BoundAssumption
           DEF NotServed, IInv, Untouched
    <2> QED
        BY <1>2, <2>1, <2>2
           DEF NotServed, IInv, TypeOK, Guarded, Quiet, Stored, Keyed, Logged,
               NotForgotten, Media
<1>3. ASSUME NEW d \in Delivery, Answer(d)
      PROVE  IInv'
    <2>1. answered' \subseteq Text /\ request' \subseteq Delivery
        BY <1>3, DeliveryParts DEF Answer, IInv, TypeOK
    <2> QED
        BY <1>3, <2>1
           DEF Answer, IInv, TypeOK, Guarded, Quiet, Stored, Untouched, Keyed,
               Logged, NotForgotten, Media
<1> QED
    BY <1>1, <1>2, <1>3

\* A message that is received is new to every store.
LEMMA ReceiveStep ==
    ASSUME IInv,
           (\E t \in Sms : ReceiveSms(t)) \/ (\E t \in Mms : ReceiveMms(t))
    PROVE  IInv'
<1> USE DEF IInv
<1>1. ASSUME NEW t \in Sms, ReceiveSms(t)
      PROVE  IInv'
    <2> DEFINE d == <<t, sent[t] + 1>>
    <2>1. /\ d \in Delivery /\ d[1] = t /\ d[2] = sent[t] + 1
          /\ sent[t] \in Nat /\ sent' \in [Text -> Nat]
          /\ \A s \in Text : sent'[s] >= sent[s]
          /\ t \in Text /\ t \notin Mms
        BY <1>1, NextDelivery, TextAssumption DEF ReceiveSms, Text
    <2>2. /\ step[d] = "none"
          /\ d \notin published
          /\ \A s \in Second : log[s] # d
        BY <2>1 DEF Untouched, Early
    <2>3. /\ step' = [step EXCEPT ![d] = "log"]
          /\ at' = [at EXCEPT ![d] = now]
          /\ up
          /\ UNCHANGED <<slot, copied, log, bucket, db, published, refused, up,
                         restored, now, crashes, answered>>
        BY <1>1 DEF ReceiveSms, Opens
    <2>4. TypeOK'
        BY <1>1, <2>1, <2>3 DEF TypeOK, ReceiveSms, Opens, Running
    <2>5. Guarded' /\ Quiet' /\ Stored'
        BY <2>1, <2>3 DEF Guarded, Quiet, Stored, TypeOK
    <2>6. Untouched'
        <3>1. ASSUME NEW e \in Delivery, e[2] > sent'[e[1]]
              PROVE  step'[e] = "none"
            <4>1. e[1] \in Text /\ e = <<e[1], e[2]>> /\ e[2] \in Nat
                BY DeliveryParts, BoundAssumption
            <4>2. sent'[t] = sent[t] + 1
                BY <1>1, <2>1 DEF ReceiveSms, Delivers, TypeOK
            <4>3. e # d
                BY <2>1, <3>1, <4>2
            <4>4. e[2] > sent[e[1]]
                BY <2>1, <3>1, <4>1 DEF TypeOK
            <4> QED
                BY <2>3, <4>3, <4>4 DEF Untouched, TypeOK
        <3>2. ASSUME NEW e \in Delivery, step'[e] \in Early
              PROVE  e \notin published' /\ \A s \in Second : log'[s] # e
            BY <2>2, <2>3, <3>2 DEF Untouched, TypeOK
        <3> QED
            BY <3>1, <3>2 DEF Untouched
    <2>7. Keyed'
        BY <2>2, <2>3 DEF Keyed, TypeOK
    <2>8. Logged' /\ NotForgotten'
        BY <2>1, <2>2, <2>3 DEF Logged, NotForgotten, TypeOK
    <2>9. Media'
        BY <2>3 DEF Media
    <2> QED
        BY <2>4, <2>5, <2>6, <2>7, <2>8, <2>9
<1>2. ASSUME NEW t \in Mms, ReceiveMms(t)
      PROVE  IInv'
    <2> DEFINE d == <<t, sent[t] + 1>>
    <2>1. /\ d \in Delivery /\ d[1] = t /\ d[2] = sent[t] + 1
          /\ sent[t] \in Nat /\ sent' \in [Text -> Nat]
          /\ \A s \in Text : sent'[s] >= sent[s]
          /\ t \in Text
        BY <1>2, NextDelivery DEF ReceiveMms, Text
    <2>2. /\ step[d] = "none"
          /\ d \notin published
          /\ \A s \in Second : log[s] # d
        BY <2>1 DEF Untouched, Early
    <2>3. /\ \/ step' = step /\ slot' = slot
             \/ /\ slot[t] = None
                /\ slot' = [slot EXCEPT ![t] = d]
                /\ step' = [step EXCEPT ![d] = "queued"]
          /\ up
          /\ UNCHANGED <<at, copied, log, bucket, db, published, refused, up,
                         restored, now, crashes, answered>>
        BY <1>2 DEF ReceiveMms, Opens
    <2>4. TypeOK'
        <3>1. request' \subseteq Delivery
            BY <1>2, <2>1 DEF TypeOK, ReceiveMms, Opens
        <3>2. /\ step' \in [Delivery -> Running \union {"none", "end"}]
              /\ slot' \in [Mms -> Delivery \union {None}]
            BY <2>1, <2>3 DEF TypeOK, Running
        <3> QED
            BY <2>1, <2>3, <3>1, <3>2, <1>2 DEF TypeOK, ReceiveMms
    <2>5. Guarded'
        <3> SUFFICES ASSUME NEW e \in Delivery, e[1] \in Mms,
                            step'[e] \in Running
                     PROVE  slot'[e[1]] = e
            BY DEF Guarded
        <3>1. CASE step' = step /\ slot' = slot
            BY <3>1 DEF Guarded
        <3>2. CASE /\ slot[t] = None
                   /\ slot' = [slot EXCEPT ![t] = d]
                   /\ step' = [step EXCEPT ![d] = "queued"]
            <4>1. CASE e = d
                BY <2>1, <3>2, <4>1 DEF TypeOK
            <4>2. CASE e # d
                <5>1. slot[e[1]] = e
                    BY <3>2, <4>2 DEF Guarded, TypeOK
                <5>2. e[1] # t
                    BY <3>2, <5>1, TextAssumption
                <5> QED
                    BY <3>2, <5>1, <5>2 DEF TypeOK
            <4> QED
                BY <4>1, <4>2
        <3> QED
            BY <2>3, <3>1, <3>2
    <2>6. Quiet' /\ Stored'
        BY <2>1, <2>3 DEF Quiet, Stored, TypeOK
    <2>7. Untouched'
        <3>1. ASSUME NEW e \in Delivery, e[2] > sent'[e[1]]
              PROVE  step'[e] = "none"
            <4>1. e[1] \in Text /\ e = <<e[1], e[2]>> /\ e[2] \in Nat
                BY DeliveryParts, BoundAssumption
            <4>2. sent'[t] = sent[t] + 1
                BY <1>2, <2>1 DEF ReceiveMms, Delivers, TypeOK
            <4>3. e # d
                BY <2>1, <3>1, <4>2
            <4>4. e[2] > sent[e[1]]
                BY <2>1, <3>1, <4>1 DEF TypeOK
            <4> QED
                BY <2>3, <4>3, <4>4 DEF Untouched, TypeOK
        <3>2. ASSUME NEW e \in Delivery, step'[e] \in Early
              PROVE  e \notin published' /\ \A s \in Second : log'[s] # e
            BY <2>2, <2>3, <3>2 DEF Untouched, TypeOK
        <3> QED
            BY <3>1, <3>2 DEF Untouched
    <2>8. Keyed' /\ Logged' /\ NotForgotten'
        BY <2>1, <2>2, <2>3 DEF Keyed, Logged, NotForgotten, TypeOK
    <2>9. Media'
        BY <2>3 DEF Media
    <2> QED
        BY <2>4, <2>5, <2>6, <2>7, <2>8, <2>9
<1> QED
    BY <1>1, <1>2

\* The worker keeps the invariant up to the log.
LEMMA WorkerStep ==
    ASSUME IInv, NEW d \in Delivery,
           \/ StartWorker(d) \/ MakeMessage(d)
           \/ d[1] \in Mms /\ \E a \in AttachmentsOf[d[1]] : CopyAttachment(d, a)
    PROVE  IInv'
<1> USE DEF IInv, Running, Early
<1>1. CASE StartWorker(d)
    BY <1>1 DEF StartWorker, TypeOK, Guarded, Quiet, Stored, Untouched, Keyed,
                Logged, NotForgotten, Media
<1>2. CASE MakeMessage(d)
    <2>1. TypeOK' /\ Guarded' /\ Quiet' /\ Stored' /\ Untouched'
        BY <1>2 DEF MakeMessage, TypeOK, Guarded, Quiet, Stored, Untouched
    <2>2. Keyed' /\ Logged' /\ NotForgotten' /\ Media'
        BY <1>2 DEF MakeMessage, TypeOK, Untouched, Keyed, Logged, NotForgotten,
                    Media
    <2> QED
        BY <2>1, <2>2
<1>3. ASSUME d[1] \in Mms, NEW a \in AttachmentsOf[d[1]], CopyAttachment(d, a)
      PROVE  IInv'
    <2>1. a \in Attachment /\ Key(a, now) \in Types \X Second
        BY <1>3, TextAssumption DEF TypeOK, Key, Types
    <2>2. TypeOK'
        <3>1. bucket' \in [Types \X Second -> Attachment \union {None}]
            <4>1. bucket \in [Types \X Second -> Attachment \union {None}]
                BY DEF TypeOK
            <4>2. bucket' = bucket \/ bucket' = [bucket EXCEPT ![Key(a, now)] = a]
                BY <1>3 DEF CopyAttachment
            <4> QED
                BY <2>1, <4>1, <4>2
        <3>2. copied' \in [Delivery ->
                              [Attachment -> Second \union {Pending, Failed}]]
            <4>1. \/ copied' = [copied EXCEPT ![d][a] = Failed]
                  \/ copied' = [copied EXCEPT ![d][a] = now]
                BY <1>3 DEF CopyAttachment
            <4>2. /\ copied \in [Delivery ->
                                   [Attachment -> Second \union {Pending, Failed}]]
                  /\ now \in Second
                BY DEF TypeOK
            <4> HIDE DEF IInv
            <4>3. CASE copied' = [copied EXCEPT ![d][a] = Failed]
                BY <2>1, <4>2, <4>3
            <4>4. CASE copied' = [copied EXCEPT ![d][a] = now]
                BY <2>1, <4>2, <4>4
            <4> QED
                BY <4>1, <4>3, <4>4
        <3> QED
            BY <1>3, <3>1, <3>2 DEF CopyAttachment, TypeOK
    <2>3. /\ Guarded' /\ Quiet' /\ Stored' /\ Untouched' /\ Keyed' /\ Logged'
          /\ NotForgotten'
        BY <1>3 DEF CopyAttachment, Guarded, Quiet, Stored, Untouched, Keyed,
                    Logged, NotForgotten
    <2>4. ASSUME NEW e \in Delivery, NEW b \in Attachment,
                 copied'[e][b] \in Second
          PROVE  /\ bucket'[Key(b, copied'[e][b])] # None
                 /\ TypeOf[bucket'[Key(b, copied'[e][b])]] = TypeOf[b]
        <3>1. CASE copied' = [copied EXCEPT ![d][a] = Failed] /\ bucket' = bucket
            <4>1. e # d \/ b # a
                BY <2>4, <3>1, TextAssumption DEF Second, TypeOK
            <4> QED
                BY <2>4, <3>1, <4>1 DEF Media, TypeOK
        <3>2. CASE /\ copied' = [copied EXCEPT ![d][a] = now]
                   /\ bucket' = [bucket EXCEPT ![Key(a, now)] = a]
            <4>1. CASE e = d /\ b = a
                BY <2>1, <3>2, <4>1, TextAssumption DEF TypeOK
            <4>2. CASE ~(e = d /\ b = a)
                <5>1. copied'[e][b] = copied[e][b]
                    BY <3>2, <4>2 DEF TypeOK
                <5>2. /\ bucket[Key(b, copied[e][b])] # None
                      /\ TypeOf[bucket[Key(b, copied[e][b])]] = TypeOf[b]
                    BY <2>4, <5>1 DEF Media
                <5>3. CASE Key(b, copied[e][b]) = Key(a, now)
                    <6>1. TypeOf[a] = TypeOf[b]
                        BY <5>3 DEF Key
                    <6>2. bucket'[Key(b, copied'[e][b])] = a
                        BY <2>1, <3>2, <5>1, <5>3 DEF TypeOK
                    <6> QED
                        BY <2>1, <6>1, <6>2, TextAssumption
                <5>4. CASE Key(b, copied[e][b]) # Key(a, now)
                    <6>1. Key(b, copied[e][b]) \in Types \X Second
                        BY <2>4, <5>1 DEF Key, Types
                    <6>2. bucket'[Key(b, copied'[e][b])] = bucket[Key(b, copied[e][b])]
                        BY <3>2, <5>1, <5>4, <6>1 DEF TypeOK
                    <6> QED
                        BY <5>2, <6>2
                <5> QED
                    BY <5>3, <5>4
            <4> QED
                BY <4>1, <4>2
        <3> QED
            BY <1>3, <3>1, <3>2 DEF CopyAttachment
    <2> QED
        BY <2>2, <2>3, <2>4 DEF Media
<1> QED
    BY <1>1, <1>2, <1>3

\* The steps from the log to the end keep the invariant.
LEMMA MessageStep ==
    ASSUME IInv, NEW d \in Delivery,
           LogMessage(d) \/ PutMessage(d) \/ PublishMessage(d) \/ ReleaseSlot(d)
    PROVE  IInv'
<1> USE DEF IInv, Running, Early
<1>0. at[d] \in Second
    BY DEF TypeOK
<1>1. CASE LogMessage(d)
    <2>1. TypeOK' /\ Guarded' /\ Quiet' /\ Stored' /\ Media'
        BY <1>0, <1>1 DEF LogMessage, TypeOK, Guarded, Quiet, Stored, Media
    <2>2. Untouched' /\ Keyed'
        BY <1>0, <1>1 DEF LogMessage, TypeOK, Untouched, Keyed
    <2>3. Logged'
        BY <1>0, <1>1, TextAssumption DEF LogMessage, TypeOK, Untouched, Logged
    <2>4. NotForgotten'
        BY <1>0, <1>1 DEF LogMessage, TypeOK, Untouched, NotForgotten
    <2> QED
        BY <2>1, <2>2, <2>3, <2>4
<1>2. CASE PutMessage(d)
    <2> USE DEF PutMessage, Ends
    <2>1. TypeOK' /\ Quiet' /\ Stored' /\ Media'
        BY <1>2 DEF TypeOK, Quiet, Stored, Media
    <2>2. Guarded' /\ Untouched' /\ Keyed'
        BY <1>2 DEF TypeOK, Guarded, Untouched, Keyed
    <2>3. Logged' /\ NotForgotten'
        BY <1>2 DEF TypeOK, Logged, NotForgotten
    <2> QED
        BY <2>1, <2>2, <2>3
<1>3. CASE PublishMessage(d)
    <2> USE DEF PublishMessage, Ends
    <2>1. TypeOK' /\ Quiet' /\ Stored' /\ Media'
        BY <1>3 DEF TypeOK, Quiet, Stored, Media
    <2>2. Guarded' /\ Untouched' /\ Keyed'
        BY <1>3 DEF TypeOK, Guarded, Untouched, Keyed
    <2>3. Logged' /\ NotForgotten'
        BY <1>3 DEF TypeOK, Logged, NotForgotten, Stored
    <2> QED
        BY <2>1, <2>2, <2>3
<1>4. CASE ReleaseSlot(d)
    <2> USE DEF ReleaseSlot
    <2>1. TypeOK' /\ Quiet' /\ Stored' /\ Media'
        BY <1>4 DEF TypeOK, Quiet, Stored, Media
    <2>2. Guarded' /\ Untouched' /\ Keyed'
        BY <1>4 DEF TypeOK, Guarded, Untouched, Keyed
    <2>3. Logged' /\ NotForgotten'
        BY <1>4 DEF TypeOK, Logged, NotForgotten
    <2> QED
        BY <2>1, <2>2, <2>3
<1> QED
    BY <1>1, <1>2, <1>3, <1>4

\* A crash ends what runs, and a start restores what the log names.
LEMMA ProcessStep ==
    ASSUME IInv, Crash \/ Rebuild
    PROVE  IInv'
<1> USE DEF IInv, Running, Early
<1>1. CASE Crash
    <2>1. TypeOK'
        <3>1. crashes' \in 0 .. MaxCrashes
            BY <1>1, BoundAssumption DEF Crash, TypeOK
        <3> QED
            BY <1>1, <3>1 DEF Crash, TypeOK
    <2>3. Guarded' /\ Quiet' /\ Stored' /\ Media'
        BY <1>1 DEF Crash, TypeOK, Guarded, Quiet, Stored, Media
    <2>2. Untouched' /\ Keyed' /\ Logged' /\ NotForgotten'
        BY <1>1 DEF Crash, TypeOK, Untouched, Keyed, Logged, NotForgotten
    <2> QED
        BY <2>1, <2>2, <2>3
<1>2. CASE Rebuild
    <2>1. PICK last \in ReadUpTo :
             restored' = last /\ db' = {log[s] : s \in 0 .. last - 1} \ {None}
        BY <1>2 DEF Rebuild
    <2>2. 0 .. last - 1 \subseteq Second
        BY <2>1, BoundAssumption DEF Second, ReadUpTo
    <2>3. TypeOK'
        BY <1>2, <2>1, <2>2 DEF Rebuild, TypeOK
    <2>4. Guarded' /\ Quiet' /\ Stored' /\ Untouched' /\ Keyed' /\ Logged' /\ Media'
        BY <1>2 DEF Rebuild, Guarded, Quiet, Stored, Untouched, Keyed, Logged,
                    Media
    <2>5. ASSUME NEW d \in published \ refused, log[at[d]] = d, ~(at[d] >= last)
          PROVE  d \in db'
        <3>1. d \in Delivery /\ at[d] \in 0 .. last - 1
            BY <2>1, <2>5, BoundAssumption DEF TypeOK, Second, ReadUpTo
        <3> QED
            BY <2>1, <2>5, <3>1, TextAssumption
    <2>6. NotForgotten'
        BY <1>2, <2>1, <2>5 DEF Rebuild, NotForgotten
    <2> QED
        BY <2>3, <2>4, <2>6
<1> QED
    BY <1>1, <1>2

----------------------------------------------------------------------------
\* The invariant of the stores and the guard is inductive.
THEOREM Inductive == Spec => []IInv
<1>1. IInv /\ [Next]_vars => IInv'
    <2> SUFFICES ASSUME IInv, [Next]_vars
                 PROVE  IInv'
        OBVIOUS
    <2>1. CASE Next
        BY <2>1, OutsideStep, ReceiveStep, WorkerStep, MessageStep, ProcessStep
           DEF Next, Works
    <2>2. CASE UNCHANGED vars
        BY <2>2 DEF vars, IInv, TypeOK, Guarded, Quiet, Stored, Untouched,
                    Keyed, Logged, NotForgotten, Media
    <2> QED
        BY <2>1, <2>2
<1> QED
    BY InitInvariant, <1>1, PTL DEF Spec

\* Every variable stays within its type, whatever fails and is retried.
THEOREM TypeCorrect == Spec => []TypeOK
BY Inductive, PTL DEF IInv

\* The guard keeps two workers of one text apart (main.py:548-569).
THEOREM WorkerIsAlone == Spec => []OneWorkerPerText
<1>1. IInv => OneWorkerPerText
    BY DEF IInv, Guarded, OneWorkerPerText
<1> QED
    BY <1>1, Inductive, PTL

\* What is shown is in the log of the bucket, or another message of its second
\* is (main.py:531-541).
THEOREM ShownStaysLogged == Spec => []ShownIsLogged
<1>1. IInv => ShownIsLogged
    BY DEF IInv, ShownIsLogged, Logged, Keyed, TypeOK
<1> QED
    BY <1>1, Inductive, PTL

\* No crash and no rebuild makes the server forget what was shown and is in
\* the log it could read (sqlite.py:400-508).
THEOREM NothingForgotten == Spec => []NotForgotten
BY Inductive, PTL DEF IInv

\* The media of what is shown are in the bucket (main.py:727-779).
THEOREM MediaStays == Spec => []MediaIsThere
<1>1. IInv => MediaIsThere
    BY TextAssumption DEF IInv, MediaIsThere, Media, TypeOK
<1> QED
    BY <1>1, Inductive, PTL

\* Nothing is published that is not stored (main.py:535-540).
THEOREM StoredBeforePublished == Spec => StoredFirst
<1>1. IInv /\ [Next]_vars => [published' \ published \subseteq db]_vars
    <2> SUFFICES ASSUME IInv, Next, NEW e \in published' \ published
                 PROVE  e \in db
        OBVIOUS
    <2>1. PICK d \in Delivery : PublishMessage(d)
        BY DEF Next, Works, Tick, NotServed, ReceiveSms, ReceiveMms, Answer,
               StartWorker, CopyAttachment, MakeMessage, LogMessage,
               PutMessage, ReleaseSlot, Crash, Rebuild
    <2> QED
        BY <2>1 DEF PublishMessage, IInv, Stored
<1> QED
    BY Inductive, <1>1, PTL DEF Spec, StoredFirst

===========================================================================
