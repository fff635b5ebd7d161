--------------------------- MODULE AppLogs_proofs ---------------------------
(***************************************************************************)
(* Proofs about AppLogs, for any capacity of the buffer, any limits and    *)
(* any number of events. Events have left the stream in the order they     *)
(* were sent, so how many the forwarding goroutine has read says which:    *)
(* the buffer is the stretch of what was sent after those, and what it has *)
(* read is collected but for the entry it offers.                          *)
(***************************************************************************)
EXTENDS AppLogs, TLAPS

\* The event that found the buffer full.
Lost == IF err[sub] = "overflow" THEN 1 ELSE 0

\* How many events the goroutine has read.
Read == Len(sent) - Lost - Len(buffer[sub])

\* Of the first m events, those that decode are collected.
Has(m) == \A k \in 1..m : sent[k].decodes => \E j \in DOMAIN entries : entries[j] = sent[k]

Types ==
  /\ state \in [Subs -> {"idle", "open", "ended"}]
  /\ err \in [Subs -> Reasons \cup {"open"}]
  /\ buffer \in [Subs -> Seq(Events)]
  /\ sent \in Seq(Events) /\ entries \in Seq(Events) /\ bytes \in Nat
  /\ forwarder \in {"none", "range", "send", "ended"}
  /\ pc \in {"resolve", "subscribe", "subscribing", "collect", "check", "result", "error"}

Early == {"resolve", "subscribe", "subscribing"}

\* The reason is there when the stream has ended; the goroutine ends before
\* the tool call does only with the stream or the context.
Progress ==
  /\ err[sub] # "open" <=> state[sub] = "ended"
  /\ released => pc \in {"result", "error"}
  /\ pc \in Early => entries = <<>> /\ forwarder = "none"
  /\ pc \in Early \cup {"collect"} => ~withheld /\ bound = "none" /\ Len(entries) < Limit
  /\ quiet # "off" => entries # <<>>
  /\ forwarder = "ended" /\ ~collectCtxDone => state[sub] = "ended"
  /\ (pc = "check" /\ bound = "quiet" /\ ~ctxDone) => (entries # <<>> /\ quiet = "fired") \/ state[sub] = "ended"
  /\ QuietIsSilence

Bounds ==
  /\ Len(entries) <= Limit
  /\ bytes <= ByteLimit
  /\ withheld => bound = "bytes"

\* What the buffer holds.
Stretch ==
  /\ \A k \in DOMAIN sent : sent[k].n = k
  /\ Read \in Nat
  /\ \A i \in DOMAIN buffer[sub] : buffer[sub][i] = sent[Read + i]
  /\ forwarder = "none" => Read = 0

\* What was collected.
Ordered ==
  /\ \A i \in DOMAIN entries : entries[i].n \in 1..Read /\ entries[i] = sent[entries[i].n] /\ entries[i].decodes
  /\ \A i, j \in DOMAIN entries : i < j => entries[i].n < entries[j].n

Offered ==
  forwarder = "send" =>
    /\ offer = <<sent[Read]>> /\ Read \in Nat \ {0} /\ sent[Read].decodes
    /\ pc = "collect" => \A i \in DOMAIN entries : entries[i].n < Read

Whole ==
  /\ \A i \in DOMAIN entries : Has(entries[i].n)
  /\ pc = "collect" /\ forwarder = "range" => Has(Read)
  /\ pc = "collect" /\ forwarder = "send" => Has(Read - 1)

Inv == Types /\ Progress /\ Bounds /\ Stretch /\ Ordered /\ Offered /\ Whole

-----------------------------------------------------------------------------
\* A collection reads one subscription.
LEMMA SubIsOne == sub \in Subs /\ \A s \in Subs : s = sub
BY AppLogsAssumption

\* With one event less in the buffer, one more has been read.
LEMMA OneMoreRead ==
  ASSUME NEW a \in Nat, NEW b \in Nat, NEW c \in Nat, NEW r \in Nat, b > 0, r + b + c = a
  PROVE  a - c - (b - 1) = r + 1 /\ r + 1 <= a
OBVIOUS

\* What was sent is what was read, what is in the buffer and what overflowed.
LEMMA ReadIs ==
  ASSUME Inv
  PROVE  /\ buffer[sub] \in Seq(Events) /\ Len(buffer[sub]) \in Nat /\ DOMAIN buffer[sub] = 1..Len(buffer[sub])
         /\ Len(sent) \in Nat /\ DOMAIN sent = 1..Len(sent)
         /\ Lost \in {0, 1} /\ Read \in Nat
         /\ Read + Len(buffer[sub]) + Lost = Len(sent)
         /\ Read + Len(buffer[sub]) <= Len(sent) /\ Read <= Len(sent)
<1>1. /\ buffer[sub] \in Seq(Events) /\ Len(buffer[sub]) \in Nat /\ DOMAIN buffer[sub] = 1..Len(buffer[sub])
      /\ Len(sent) \in Nat /\ DOMAIN sent = 1..Len(sent)
  BY SubIsOne DEF Inv, Types
<1>2. Lost \in {0, 1}
  BY DEF Lost
<1>3. Read \in Nat
  BY DEF Inv, Stretch
<1>4. Read = Len(sent) - Lost - Len(buffer[sub])
  BY DEF Read
<1>5. ASSUME NEW a \in Nat, NEW l \in Nat, NEW b \in Nat, NEW r \in Nat, r = a - l - b
      PROVE  r + b + l = a /\ r + b <= a /\ r <= a
  BY <1>5
<1>6. Lost \in Nat
  BY <1>2
<1> QED
  BY <1>1, <1>2, <1>3, <1>4, <1>5, <1>6

\* What was collected stays so, for as long as no event is read and no entry
\* taken.
LEMMA Kept ==
  ASSUME Inv, Read' = Read, \A k \in 1..Read : sent'[k] = sent[k],
         UNCHANGED <<entries, forwarder, offer>>, pc' = "collect" => pc = "collect"
  PROVE  Ordered' /\ Offered' /\ Whole'
<1>1. Read \in Nat
  BY DEF Inv, Stretch
<1>2. \A i \in DOMAIN entries : entries[i].n \in 1..Read
  BY DEF Inv, Ordered
<1>3. Ordered'
  BY <1>2 DEF Inv, Ordered
<1>4. Offered'
  BY <1>1 DEF Inv, Offered
<1>5. ASSUME NEW m \in 0..Read, Has(m) PROVE Has(m)'
  BY <1>1, <1>5 DEF Has
<1>6. Whole'
  <2>1. \A i \in DOMAIN entries : Has(entries[i].n)'
    BY <1>1, <1>2, <1>5 DEF Inv, Whole
  <2>2. pc = "collect" /\ forwarder = "range" => Has(Read)'
    BY <1>1, <1>5 DEF Inv, Whole
  <2>3. pc = "collect" /\ forwarder = "send" => Has(Read - 1)'
    BY <1>1, <1>5 DEF Inv, Whole, Offered
  <2> QED
    BY <2>1, <2>2, <2>3 DEF Whole, Has
<1> QED
  BY <1>3, <1>4, <1>6

\* Most steps read nothing: what was sent and the buffer stay, and if the
\* stream ends it is not for an event that found no room.
Calm == UNCHANGED <<sent, buffer>> /\ (err'[sub] = err[sub] \/ (err[sub] = "open" /\ err'[sub] # "overflow"))

\* Where nothing is sent or read, the buffer and the entries stand as they did.
LEMMA CalmKeeps ==
  ASSUME Inv, Calm, forwarder' = "none" => forwarder = "none"
  PROVE  /\ Read' = Read /\ Stretch'
         /\ UNCHANGED <<entries, forwarder, offer>> /\ (pc' = "collect" => pc = "collect") =>
              Ordered' /\ Offered' /\ Whole'
<1>1. Lost' = Lost
  BY DEF Calm, Lost
<1>2. Read' = Read
  BY <1>1 DEF Read, Calm
<1>3. Stretch'
  BY <1>2 DEF Calm, Inv, Stretch
<1> QED
  BY <1>2, <1>3, Kept DEF Calm

-----------------------------------------------------------------------------
(* The steps.                                                              *)

\* A tool call that has not begun has collected nothing.
LEMMA InvInit == AppLogsInit => Inv
<1> SUFFICES ASSUME AppLogsInit PROVE Inv
  OBVIOUS
<1> USE AppLogsAssumption DEF AppLogsInit, Init
<1>1. Types
  BY DEF Types, Reasons
<1>2. Progress /\ Bounds
  BY DEF Progress, Bounds, QuietIsSilence, Early, collectCtxDone
<1>3. Read = 0
  BY DEF Read, Lost
<1>4. Stretch /\ Ordered /\ Offered /\ Whole
  BY <1>3 DEF Stretch, Ordered, Offered, Whole
<1> QED
  BY <1>1, <1>2, <1>4 DEF Inv

\* Up to the collection.
LEMMA AppLogsKeeps ==
  ASSUME Inv, appLogs
  PROVE  Inv'
<1>1. /\ pc \in Early /\ forwarder = "none" /\ entries = <<>>
      /\ UNCHANGED <<ctxDone, offer, entries, bytes, bound, withheld, quiet, sent>>
  BY DEF appLogs, ResolveContainer, SubscribeRefused, SubscribeRegisters, SubscribeFails, CollectBegins, resultVars,
         timerVars, toolVars, forwarderVars, Inv, Progress, Early
<1>2. /\ buffer' = buffer /\ state' \in [Subs -> {"idle", "open", "ended"}] /\ err' \in [Subs -> Reasons \cup {"open"}]
      /\ err'[sub] # "open" <=> state'[sub] = "ended"
      /\ err'[sub] = err[sub] \/ (err[sub] = "open" /\ err'[sub] # "overflow")
  <2>1. CASE UNCHANGED vars
    BY <2>1 DEF vars, Inv, Types, Progress
  <2>2. CASE Open(sub)
    BY <2>2, SubIsOne DEF Open, Inv, Types, Progress
  <2>3. ASSUME NEW why \in {"interrupted", "cancelled", "closed", "error"}, End(sub, why)
        PROVE  /\ buffer' = buffer /\ state' = [state EXCEPT ![sub] = "ended"] /\ err' = [err EXCEPT ![sub] = why]
               /\ err[sub] = "open" /\ why \in Reasons /\ why # "overflow" /\ why # "open"
    BY <2>3, SubIsOne DEF End, Inv, Types, Progress, Reasons
  <2>4. CASE \E why \in {"interrupted", "cancelled", "closed", "error"} : End(sub, why)
    <3>1. PICK why \in Reasons :
            /\ buffer' = buffer /\ state' = [state EXCEPT ![sub] = "ended"] /\ err' = [err EXCEPT ![sub] = why]
            /\ err[sub] = "open" /\ why # "overflow" /\ why # "open"
      BY <2>3, <2>4
    <3> QED
      BY <3>1, SubIsOne DEF Inv, Types
  <2>5. UNCHANGED vars \/ Open(sub) \/ \E why \in {"interrupted", "cancelled", "closed", "error"} : End(sub, why)
    BY DEF appLogs, ResolveContainer, SubscribeRefused, SubscribeRegisters, SubscribeFails, CollectBegins
  <2> QED
    BY <2>1, <2>2, <2>4, <2>5
<1>3. Calm
  BY <1>1, <1>2 DEF Calm
<1>4. CASE CollectBegins
  <2>1. pc' = "collect" /\ forwarder' = "range" /\ UNCHANGED <<released, err, buffer, state>> /\ pc = "subscribing"
    BY <1>4 DEF CollectBegins, vars
  <2>2. Types' /\ Progress' /\ Bounds'
    BY <1>1, <2>1 DEF Inv, Types, Progress, Bounds, QuietIsSilence, Early, collectCtxDone
  <2>3. Read' = Read /\ Stretch' /\ Read = 0
    BY <1>1, <1>3, <2>1, CalmKeeps DEF Inv, Stretch
  <2>4. Ordered' /\ Offered' /\ Whole'
    BY <1>1, <2>1, <2>3 DEF Ordered, Offered, Whole, Has
  <2> QED
    BY <2>2, <2>3, <2>4 DEF Inv
<1>5. CASE ~CollectBegins
  <2>1. /\ forwarder' = forwarder /\ pc' \in {"subscribe", "subscribing", "error"}
        /\ released' = released \/ pc' = "error"
    BY <1>5 DEF appLogs, ResolveContainer, SubscribeRefused, SubscribeRegisters, SubscribeFails, forwarderVars
  <2>2. Types'
    BY <1>1, <1>2, <2>1 DEF Inv, Types
  <2>3. Progress' /\ Bounds'
    BY <1>1, <1>2, <2>1 DEF Inv, Progress, Bounds, QuietIsSilence, Early, collectCtxDone
  <2>4. Stretch' /\ Ordered' /\ Offered' /\ Whole'
    BY <1>1, <1>3, <2>1, CalmKeeps
  <2> QED
    BY <2>2, <2>3, <2>4 DEF Inv
<1> QED
  BY <1>4, <1>5

\* The goroutine reads an event, which it offers if it decodes.
LEMMA ForwarderReadsKeeps ==
  ASSUME Inv, ForwarderReads
  PROVE  Inv'
<1> DEFINE e == Head(buffer[sub])
<1>1. /\ forwarder = "range" /\ buffer[sub] # <<>> /\ buffer[sub] \in Seq(Events) /\ e \in Events
      /\ buffer' = [buffer EXCEPT ![sub] = Tail(buffer[sub])] /\ buffer'[sub] = Tail(buffer[sub])
      /\ UNCHANGED <<state, err, pc, ctxDone, released, entries, bytes, bound, withheld, deadline, quiet, sent>>
      /\ IF e.decodes THEN forwarder' = "send" /\ offer' = <<e>> ELSE UNCHANGED <<forwarder, offer>>
  BY SubIsOne DEF ForwarderReads, Take, toolVars, resultVars, timerVars, forwarderVars, Inv, Types
<1>2. Types'
  <2>1. Tail(buffer[sub]) \in Seq(Events)
    BY <1>1
  <2>2. buffer' \in [Subs -> Seq(Events)]
    BY <1>1, <2>1 DEF Inv, Types
  <2> QED
    BY <1>1, <2>2 DEF Inv, Types
<1>3. Progress' /\ Bounds'
  BY <1>1 DEF Inv, Progress, Bounds, QuietIsSilence, Early, collectCtxDone
<1>4. Len(buffer'[sub]) = Len(buffer[sub]) - 1 /\ Len(buffer[sub]) \in Nat \ {0} /\ 1 \in DOMAIN buffer[sub]
  <2>1. Len(buffer[sub]) \in Nat \ {0}
    BY <1>1
  <2>2. Len(Tail(buffer[sub])) = Len(buffer[sub]) - 1
    BY <1>1
  <2>3. 1 \in DOMAIN buffer[sub]
    BY <2>1, ReadIs
  <2> QED
    BY <1>1, <2>1, <2>2, <2>3
<1>5. Lost' = Lost /\ Lost \in {0, 1}
  BY <1>1 DEF Lost
<1>6. Read' = Read + 1 /\ Read \in Nat /\ Read + 1 <= Len(sent)
  <2>1. Read' = Len(sent) - Lost - (Len(buffer[sub]) - 1)
    BY <1>1, <1>4, <1>5 DEF Read
  <2>2. /\ Len(sent) \in Nat /\ Lost \in Nat /\ Read \in Nat
        /\ Len(buffer[sub]) \in Nat /\ Len(buffer[sub]) > 0
        /\ Read + Len(buffer[sub]) + Lost = Len(sent)
    BY <1>4, ReadIs
  <2>3. Len(sent) - Lost - (Len(buffer[sub]) - 1) = Read + 1 /\ Read + 1 <= Len(sent)
    BY <2>2, OneMoreRead
  <2> QED
    BY <2>1, <2>2, <2>3
<1>7. e = sent[Read + 1]
  BY <1>1, <1>4 DEF Inv, Stretch
<1>8. Stretch'
  <2>1. \A i \in DOMAIN buffer'[sub] : buffer'[sub][i] = buffer[sub][i + 1] /\ i + 1 \in DOMAIN buffer[sub] /\ i \in Nat
    BY <1>1, <1>4
  <2>2. \A i \in DOMAIN buffer'[sub] : buffer'[sub][i] = sent[(Read + 1) + i]
    BY <1>6, <2>1 DEF Inv, Stretch
  <2> QED
    BY <1>1, <1>6, <2>2 DEF Inv, Stretch
<1>9. Ordered'
  BY <1>1, <1>6 DEF Inv, Ordered
<1>10. Offered'
  <2> SUFFICES ASSUME forwarder' = "send"
               PROVE  /\ offer' = <<sent[Read + 1]>> /\ Read + 1 \in Nat \ {0} /\ sent[Read + 1].decodes
                      /\ \A i \in DOMAIN entries : entries[i].n < Read + 1
    BY <1>1, <1>6 DEF Offered
  <2>1. e.decodes /\ offer' = <<e>>
    BY <1>1
  <2>2. \A i \in DOMAIN entries : entries[i].n < Read + 1
    BY <1>6 DEF Inv, Ordered
  <2> QED
    BY <1>6, <1>7, <2>1, <2>2
<1>11. Whole'
  <2>1. \A m : Has(m)' <=> Has(m)
    BY <1>1 DEF Has
  <2>2. \A i \in DOMAIN entries' : Has(entries[i].n)'
    BY <1>1 DEF Inv, Whole, Has
  <2>3. pc = "collect" => Has(Read)
    BY <1>1 DEF Inv, Whole
  <2>4. CASE e.decodes
    <3>1. (Read - 1)' = Read
      BY <1>6
    <3> QED
      BY <1>1, <2>1, <2>2, <2>3, <2>4, <3>1 DEF Whole, Has
  <2>5. CASE ~e.decodes
    <3>1. Has(Read) => Has(Read + 1)
      BY <1>6, <1>7, <2>5 DEF Has
    <3> QED
      BY <1>1, <1>6, <2>1, <2>2, <2>3, <2>5, <3>1 DEF Whole, Has
  <2> QED
    BY <2>4, <2>5
<1> QED
  BY <1>2, <1>3, <1>8, <1>9, <1>10, <1>11 DEF Inv

\* The collector takes what is offered, if it fits.
LEMMA CollectEntryKeeps ==
  ASSUME Inv, CollectEntry
  PROVE  Inv'
<1> DEFINE e == Head(offer)
<1>1. /\ pc = "collect" /\ forwarder = "send" /\ forwarder' = "range"
      /\ UNCHANGED <<state, err, buffer, ctxDone, released, deadline, sent>>
  BY DEF CollectEntry, vars
<1>2. e = sent[Read] /\ Read \in Nat \ {0} /\ sent[Read].decodes /\ \A i \in DOMAIN entries : entries[i].n < Read
  BY <1>1 DEF Inv, Offered
<1>3. Read <= Len(sent) /\ e \in Events /\ e.n = Read /\ e.size \in Nat /\ Read \in DOMAIN sent
  <2>1. Read <= Len(sent) /\ Read \in DOMAIN sent
    BY <1>2, ReadIs
  <2>2. e \in Events
    BY <1>2, <2>1 DEF Inv, Types
  <2>3. e.n = Read
    BY <1>2, <2>1 DEF Inv, Stretch
  <2>4. e.size \in Nat
    BY <2>2, AppLogsAssumption
  <2> QED
    BY <2>1, <2>2, <2>3, <2>4
<1>4. Read' = Read /\ Stretch'
  BY <1>1, CalmKeeps DEF Calm
<1>5. CASE fits(e)
  <2>1. /\ entries' = Append(entries, e) /\ bytes' = bytes + e.size /\ withheld' = withheld
        /\ \/ Len(entries') = Limit /\ bound' = "count" /\ pc' = "check" /\ quiet' = quiet
           \/ Len(entries') # Limit /\ bound' = "bytes" /\ pc' = "check" /\ quiet' = quiet
           \/ Len(entries') # Limit /\ quiet' = "running" /\ UNCHANGED <<bound, pc>>
    BY <1>1, <1>5 DEF CollectEntry, Stop
  <2>2. /\ entries \in Seq(Events) /\ entries' \in Seq(Events) /\ Len(entries') = Len(entries) + 1 /\ entries' # <<>>
        /\ DOMAIN entries' = DOMAIN entries \cup {Len(entries) + 1} /\ Len(entries) \in Nat
        /\ \A i \in DOMAIN entries : entries'[i] = entries[i] /\ i < Len(entries) + 1
        /\ entries'[Len(entries) + 1] = e
    BY <1>3, <2>1 DEF Inv, Types
  <2>3. bytes' \in Nat /\ bytes' <= ByteLimit
    <3>1. bytes \in Nat /\ ByteLimit \in Nat /\ e.size <= ByteLimit - bytes /\ e.size \in Nat
      BY <1>3, <1>5, AppLogsAssumption DEF fits, Inv, Types
    <3> HIDE DEF e
    <3> QED
      BY <2>1, <3>1
  <2>4. Types'
    BY <1>1, <2>1, <2>2, <2>3 DEF Inv, Types
  <2>5. Limit \in Nat /\ Len(entries) < Limit /\ ~withheld /\ bound = "none"
    BY <1>1, AppLogsAssumption DEF Inv, Progress
  <2>6. Progress' /\ Bounds'
    BY <1>1, <2>1, <2>2, <2>3, <2>5 DEF Inv, Progress, Bounds, QuietIsSilence, Early, collectCtxDone
  <2>7. Ordered'
    <3>1. ASSUME NEW i \in DOMAIN entries'
          PROVE  entries'[i].n \in 1..Read /\ entries'[i] = sent[entries'[i].n] /\ entries'[i].decodes
      <4>1. CASE i \in DOMAIN entries
        BY <2>2, <4>1 DEF Inv, Ordered
      <4>2. CASE i = Len(entries) + 1
        BY <1>2, <1>3, <2>2, <4>2
      <4> QED
        BY <2>2, <4>1, <4>2
    <3>2. ASSUME NEW i \in DOMAIN entries', NEW j \in DOMAIN entries', i < j
          PROVE  entries'[i].n < entries'[j].n
      <4>1. i \in DOMAIN entries
        BY <2>2, <3>2
      <4>2. CASE j \in DOMAIN entries
        BY <2>2, <3>2, <4>1, <4>2 DEF Inv, Ordered
      <4>3. CASE j = Len(entries) + 1
        BY <1>2, <1>3, <2>2, <4>1, <4>3
      <4> QED
        BY <2>2, <4>2, <4>3
    <3> QED
      BY <1>1, <1>4, <3>1, <3>2 DEF Ordered
  <2>8. Offered'
    BY <1>1 DEF Offered
  <2>9. Whole'
    <3>1. ASSUME NEW m, Has(m) PROVE Has(m)'
      <4> SUFFICES ASSUME NEW k \in 1..m, sent[k].decodes PROVE \E j \in DOMAIN entries' : entries'[j] = sent[k]
        BY <1>1 DEF Has
      <4>1. PICK j \in DOMAIN entries : entries[j] = sent[k]
        BY <3>1 DEF Has
      <4> QED
        BY <2>2, <4>1
    <3>2. Has(Read)'
      <4> SUFFICES ASSUME NEW k \in 1..Read, sent[k].decodes PROVE \E j \in DOMAIN entries' : entries'[j] = sent[k]
        BY <1>1, <1>4 DEF Has
      <4>1. CASE k = Read
        BY <1>2, <2>2, <4>1
      <4>2. CASE k # Read
        <5>1. Has(Read - 1) /\ k \in 1..(Read - 1)
          BY <1>1, <1>2, <4>2 DEF Inv, Whole
        <5>2. PICK j \in DOMAIN entries : entries[j] = sent[k]
          BY <5>1 DEF Has
        <5> QED
          BY <2>2, <5>2
      <4> QED
        BY <4>1, <4>2
    <3>3. ASSUME NEW i \in DOMAIN entries' PROVE Has(entries[i].n)'
      <4>1. CASE i \in DOMAIN entries
        <5>1. entries'[i].n = entries[i].n /\ Has(entries[i].n)
          BY <2>2, <4>1 DEF Inv, Whole
        <5> QED
          BY <3>1, <5>1 DEF Has
      <4>2. CASE i = Len(entries) + 1
        <5>1. entries'[i].n = Read
          BY <1>3, <2>2, <4>2
        <5> QED
          BY <1>4, <3>2, <5>1 DEF Has
      <4> QED
        BY <2>2, <4>1, <4>2
    <3> QED
      BY <1>1, <3>2, <3>3 DEF Whole
  <2> QED
    BY <1>4, <2>4, <2>6, <2>7, <2>8, <2>9 DEF Inv
<1>6. CASE ~fits(e)
  <2>1. bound' = "bytes" /\ pc' = "check" /\ withheld' = TRUE /\ UNCHANGED <<entries, bytes, quiet>>
    BY <1>6 DEF CollectEntry, Stop
  <2>2. Types' /\ Progress' /\ Bounds'
    BY <1>1, <2>1 DEF Inv, Types, Progress, Bounds, QuietIsSilence, Early, collectCtxDone
  <2>3. Ordered' /\ Offered'
    BY <1>1, <1>4, <2>1 DEF Inv, Ordered, Offered
  <2>4. Whole'
    BY <1>1, <1>4, <2>1 DEF Inv, Whole, Has
  <2> QED
    BY <1>4, <2>2, <2>3, <2>4 DEF Inv
<1> QED
  BY <1>5, <1>6

\* The goroutine ends: with an entry that nobody takes any more, if it must.
LEMMA ForwarderEndsKeeps ==
  ASSUME Inv, ForwarderEnds
  PROVE  Inv'
<1>1. /\ forwarder' = "ended" /\ (state[sub] = "ended" \/ collectCtxDone) /\ forwarder # "none"
      /\ UNCHANGED <<state, err, buffer, pc, ctxDone, released, entries, bytes, bound, withheld, deadline, quiet, sent>>
  BY DEF ForwarderEnds, vars, toolVars, resultVars, timerVars
<1>2. Types' /\ Progress' /\ Bounds'
  BY <1>1 DEF Inv, Types, Progress, Bounds, QuietIsSilence, Early, collectCtxDone
<1>3. Read' = Read /\ Stretch'
  BY <1>1, CalmKeeps DEF Calm
<1>4. Ordered' /\ Offered'
  BY <1>1, <1>3 DEF Inv, Ordered, Offered
<1>5. Whole'
  BY <1>1, <1>3 DEF Inv, Whole, Has
<1> QED
  BY <1>2, <1>3, <1>4, <1>5 DEF Inv

\* The collection ends, the tool call returns, a timer fires, the context ends.
LEMMA CollectorKeeps ==
  ASSUME Inv, CollectStops \/ Return \/ TimerFires \/ ContextEnds \/ UNCHANGED allVars
  PROVE  Inv'
<1>1. /\ UNCHANGED <<state, err, buffer, forwarder, offer, entries, bytes, withheld, sent>>
      /\ pc' = "collect" => pc = "collect"
  BY DEF CollectStops, Return, TimerFires, ContextEnds, vars, toolVars, forwarderVars, resultVars, timerVars, allVars, Stop
<1>2. Stretch' /\ Ordered' /\ Offered' /\ Whole'
  BY <1>1, CalmKeeps DEF Calm
<1>3. Types'
  BY <1>1 DEF CollectStops, Return, TimerFires, ContextEnds, toolVars, allVars, Stop, Inv, Types
<1>4. Progress' /\ Bounds'
  <2>1. CASE CollectStops
    BY <1>1, <2>1 DEF CollectStops, Stop, timerVars, Inv, Progress, Bounds, QuietIsSilence, Early, collectCtxDone
  <2>2. CASE Return
    BY <1>1, <2>2 DEF Return, resultVars, timerVars, Inv, Progress, Bounds, QuietIsSilence, Early, collectCtxDone
  <2>3. CASE TimerFires
    BY <1>1, <2>3 DEF TimerFires, toolVars, resultVars, Inv, Progress, Bounds, QuietIsSilence, Early, collectCtxDone
  <2>4. CASE ContextEnds
    BY <1>1, <2>4 DEF ContextEnds, resultVars, timerVars, Inv, Progress, Bounds, QuietIsSilence, Early, collectCtxDone
  <2>5. CASE UNCHANGED allVars
    BY <1>1, <2>5 DEF allVars, toolVars, resultVars, timerVars, Inv, Progress, Bounds, QuietIsSilence, Early,
                      collectCtxDone
  <2> QED
    BY <2>1, <2>2, <2>3, <2>4, <2>5
<1> QED
  BY <1>2, <1>3, <1>4 DEF Inv

\* The stream ends under the tool call.
LEMMA StreamEndsKeeps ==
  ASSUME Inv, ConnectionDies \/ WatchContext
  PROVE  Inv'
<1>1. /\ UNCHANGED <<buffer, forwarder, offer, pc, ctxDone, released, entries, bytes, bound, withheld, deadline, quiet, sent>>
      /\ state[sub] = "open" /\ err[sub] = "open"
  BY DEF ConnectionDies, WatchContext, Interrupt, End, toolVars, forwarderVars, resultVars, timerVars, Inv, Progress
<1>2. /\ state' \in [Subs -> {"idle", "open", "ended"}] /\ err' \in [Subs -> Reasons \cup {"open"}]
      /\ state'[sub] = "ended" /\ err'[sub] \in {"interrupted", "cancelled"}
  <2>1. CASE ConnectionDies
    BY <1>1, <2>1, SubIsOne DEF ConnectionDies, Interrupt, Inv, Types, Reasons
  <2>2. CASE WatchContext
    BY <1>1, <2>2, SubIsOne DEF WatchContext, End, Inv, Types, Reasons
  <2> QED
    BY <2>1, <2>2
<1>3. Types' /\ Progress' /\ Bounds'
  BY <1>1, <1>2 DEF Inv, Types, Progress, Bounds, QuietIsSilence, Early, collectCtxDone
<1>4. Stretch' /\ Ordered' /\ Offered' /\ Whole'
  BY <1>1, <1>2, CalmKeeps DEF Calm
<1> QED
  BY <1>3, <1>4 DEF Inv

\* The target sends an event: the buffer takes it, or the stream is given up.
LEMMA TargetEventKeeps ==
  ASSUME Inv, TargetEvent
  PROVE  Inv'
<1>1. PICK e \in Events : e.n = Len(sent) + 1 /\ dispatchNotification(e) /\ sent' = Append(sent, e)
  BY DEF TargetEvent
<1>2. /\ UNCHANGED <<forwarder, offer, pc, ctxDone, released, entries, bytes, bound, withheld, deadline, quiet>>
      /\ state[sub] = "open" /\ err[sub] = "open"
  BY <1>1 DEF TargetEvent, dispatchNotification, Push, End, toolVars, forwarderVars, resultVars, timerVars, Inv, Progress
<1>3. /\ sent' \in Seq(Events) /\ Len(sent) \in Nat /\ Len(sent') = Len(sent) + 1 /\ sent'[Len(sent) + 1] = e
      /\ \A k \in 1..Len(sent) : sent'[k] = sent[k]
      /\ DOMAIN sent' = 1..(Len(sent) + 1) /\ DOMAIN sent = 1..Len(sent)
  BY <1>1 DEF Inv, Types
<1>4. buffer[sub] \in Seq(Events) /\ Len(buffer[sub]) \in Nat /\ Lost = 0
  BY <1>2, SubIsOne DEF Inv, Types, Lost
<1>5. \A k \in DOMAIN sent' : sent'[k].n = k
  BY <1>1, <1>3 DEF Inv, Stretch
<1>6. Read \in Nat /\ Read = Len(sent) - Len(buffer[sub])
  BY <1>3, <1>4 DEF Read, Inv, Stretch
<1>7. Read <= Len(sent) /\ \A k \in 1..Read : sent'[k] = sent[k]
  BY <1>3, ReadIs
<1>8. CASE Push(sub, e)
  <2>1. /\ UNCHANGED <<state, err>> /\ buffer' = [buffer EXCEPT ![sub] = Append(buffer[sub], e)]
        /\ buffer'[sub] = Append(buffer[sub], e)
    BY <1>8, SubIsOne DEF Push, Inv, Types
  <2>2. Types'
    <3>1. buffer' \in [Subs -> Seq(Events)]
      BY <1>4, <2>1 DEF Inv, Types
    <3> QED
      BY <1>2, <1>3, <2>1, <3>1 DEF Inv, Types
  <2>3. Progress' /\ Bounds'
    BY <1>2, <2>1 DEF Inv, Progress, Bounds, QuietIsSilence, Early, collectCtxDone
  <2>4. Len(buffer'[sub]) = Len(buffer[sub]) + 1 /\ Lost' = 0
    BY <1>4, <2>1 DEF Lost
  <2>5. Read' = Read
    BY <1>3, <1>4, <1>6, <2>4 DEF Read
  <2>6. \A i \in DOMAIN buffer'[sub] : buffer'[sub][i] = sent'[Read + i]
    <3> TAKE i \in DOMAIN buffer'[sub]
    <3>1. CASE i \in DOMAIN buffer[sub]
      <4>1. buffer'[sub][i] = buffer[sub][i] /\ i \in 1..Len(buffer[sub])
        BY <1>4, <2>1, <3>1
      <4>2. buffer[sub][i] = sent[Read + i]
        BY <3>1 DEF Inv, Stretch
      <4>3. Read + i \in 1..Len(sent)
        BY <3>1, ReadIs
      <4> QED
        BY <1>3, <4>1, <4>2, <4>3
    <3>2. CASE i = Len(buffer[sub]) + 1
      <4>1. buffer'[sub][i] = e
        BY <1>4, <2>1, <3>2
      <4>2. Read + i = Len(sent) + 1
        <5>1. ASSUME NEW a \in Nat, NEW b \in Nat, NEW r \in Nat, r = a - b
              PROVE  r + (b + 1) = a + 1
          BY <5>1
        <5> QED
          BY <1>3, <1>4, <1>6, <3>2, <5>1
      <4> QED
        BY <1>3, <4>1, <4>2
    <3> QED
      BY <1>4, <2>1, <3>1, <3>2
  <2>7. Stretch'
    BY <1>2, <1>5, <1>6, <2>5, <2>6 DEF Inv, Stretch
  <2> QED
    BY <1>2, <1>7, <2>2, <2>3, <2>5, <2>7, Kept DEF Inv
<1>9. CASE End(sub, "overflow")
  <2>1. /\ buffer' = buffer /\ state' = [state EXCEPT ![sub] = "ended"] /\ err' = [err EXCEPT ![sub] = "overflow"]
        /\ state'[sub] = "ended" /\ err'[sub] = "overflow"
    BY <1>9, SubIsOne DEF End, Inv, Types
  <2>2. Types'
    BY <1>2, <1>3, <2>1 DEF Inv, Types, Reasons
  <2>3. Progress' /\ Bounds'
    BY <1>2, <2>1 DEF Inv, Progress, Bounds, QuietIsSilence, Early, collectCtxDone
  <2>4. Lost' = 1
    BY <2>1 DEF Lost
  <2>5. Read' = Read
    BY <1>3, <1>4, <1>6, <2>1, <2>4 DEF Read
  <2>6. \A i \in DOMAIN buffer[sub] : buffer[sub][i] = sent'[Read + i]
    <3> TAKE i \in DOMAIN buffer[sub]
    <3>1. i \in 1..Len(buffer[sub]) /\ Read + i \in 1..Len(sent)
      BY ReadIs
    <3> QED
      BY <1>3, <3>1 DEF Inv, Stretch
  <2>7. Stretch'
    BY <1>2, <1>5, <1>6, <2>1, <2>5, <2>6 DEF Inv, Stretch
  <2> QED
    BY <1>2, <1>7, <2>2, <2>3, <2>5, <2>7, Kept DEF Inv
<1> QED
  BY <1>1, <1>8, <1>9 DEF dispatchNotification

\* Every step keeps the invariant.
LEMMA InvNext == Inv /\ [AppLogsNext]_allVars => Inv'
BY AppLogsKeeps, ForwarderReadsKeeps, ForwarderEndsKeeps, CollectEntryKeeps, CollectorKeeps, StreamEndsKeeps,
   TargetEventKeeps
   DEF AppLogsNext, forward, collectLogEntries

\* The invariant holds in every state of a collection.
LEMMA Correct == AppLogsSpec => []Inv
BY InvInit, InvNext, PTL DEF AppLogsSpec

-----------------------------------------------------------------------------
(* The theorems.                                                           *)

\* However small the buffer and however fast the target, the log has no holes
\* and keeps within its bounds: an event that finds no room ends the stream
\* and is never skipped.
THEOREM LogIsWhole == AppLogsSpec => []NoHoles
<1>1. ASSUME Inv, NEW i \in DOMAIN entries
      PROVE  LET n == entries[i].n
             IN /\ n \in DOMAIN sent /\ entries[i] = sent[n] /\ sent[n].decodes
                /\ \A k \in 1..n : sent[k].decodes => \E j \in 1..i : entries[j] = sent[k]
                /\ \A j \in DOMAIN entries : i < j => n < entries[j].n
  <2> DEFINE n == entries[i].n
  <2>1. n \in 1..Read /\ entries[i] = sent[n] /\ sent[n].decodes /\ \A j \in DOMAIN entries : i < j => n < entries[j].n
    BY <1>1 DEF Inv, Ordered
  <2>2. Read \in Nat /\ Read <= Len(sent) /\ Len(sent) \in Nat /\ DOMAIN sent = 1..Len(sent)
    BY <1>1, ReadIs
  <2>3. n \in DOMAIN sent
    BY <2>1, <2>2
  <2>4. ASSUME NEW k \in 1..n, sent[k].decodes PROVE \E j \in 1..i : entries[j] = sent[k]
    <3>1. PICK j \in DOMAIN entries : entries[j] = sent[k]
      BY <1>1, <2>4 DEF Inv, Whole, Has
    <3>2. entries[j].n = k /\ k <= n /\ DOMAIN entries = 1..Len(entries) /\ Len(entries) \in Nat
      BY <1>1, <2>2, <2>3, <3>1 DEF Inv, Stretch, Types
    <3>3. ~(i < j)
      BY <1>1, <2>2, <2>3, <3>2 DEF Inv, Ordered
    <3>4. j \in 1..i
      BY <3>2, <3>3
    <3> QED
      BY <3>1, <3>4
  <2> QED
    BY <2>1, <2>3, <2>4
<1>2. Inv => NoHoles
  BY <1>1 DEF Inv, Bounds, NoHoles
<1> QED
  BY <1>2, Correct, PTL

\* A log that is said to have gone quiet did: neither a late first entry nor
\* the end of the stream is taken for silence.
THEOREM SilenceIsReal == AppLogsSpec => []QuietIsSilence
<1>1. Inv => QuietIsSilence
  BY DEF Inv, Progress
<1> QED
  BY <1>1, Correct, PTL
=============================================================================
