---------------------------- MODULE JobLogProofs ----------------------------
(***************************************************************************)
(* For any number of jobs, lines and lost connections, and any sizes of    *)
(* ring and batch: the panel shows the lines of a job that it has been     *)
(* sent, it says of no line that is still in the ring that it is omitted,  *)
(* with the connection up it has all of them when it hears of the end, and *)
(* when all is quiet it shows the job that runs.                           *)
(***************************************************************************)
EXTENDS JobLog, TLAPS, SequenceTheorems

LEMMA Sizes == N \in Nat /\ Lines \in Nat \ {0} /\ RING \in Nat \ {0} /\ MAXLINES \in Nat \ {0}
  BY JobLogAssumption

USE Sizes

LogEvents == [kind : {"log"}, job : Jobs, seq : 0..Lines, lines : Seq(Line)]
Message == LogEvents \cup Report \cup Answer

\* What is on a wire, in whatever order.
On(w) == {w[k] : k \in 1..Len(w)}

\* The lines of a batch, or of the event made of it, follow upon one another.
Runs(b) == \A k \in 1..Len(b.lines) : b.lines[k] = [job |-> b.job, i |-> b.seq + k - 1]

\* The lines of a job that the batcher was given.
Given(j) == IF worker[j] = "adds" THEN written[j] - 1 ELSE written[j]

BatchIsOfLast ==
  batch.lines # <<>> =>
    batch.job \in Jobs /\ Runs(batch) /\ batch.seq + Len(batch.lines) = Given(batch.job)

AddsWhatIsWritten == \A j \in Jobs : worker[j] = "adds" => written[j] > 0

LogIsSound(e) ==
  e.lines # <<>> /\ Runs(e) /\ e.seq + Len(e.lines) <= written[e.job]

\* An answer has the lines it says; what it leaves out the panel has, or nobody has any
\* more, and of what it has nothing was said to be omitted.
AnswerIsSound(e) ==
  /\ e.lines = [job : {e.job}, i : e.from..(e.next - 1)]
  /\ e.from <= e.next /\ e.next <= written[e.job]
  /\ e.from <= expected[e.job] \/ e.from <= Dropped(e.job)
  /\ \A i \in omitted[e.job] : i < e.from

Sound(e) ==
  /\ e \in LogEvents => LogIsSound(e)
  /\ e \in Answer => AnswerIsSound(e)

WireInv ==
  /\ wire \in Seq(Message)
  /\ \A e \in On(wire) : Sound(e)
  /\ served \in Answer => AnswerIsSound(served)

\* One answer at a time is on its way.
OneAnswer ==
  /\ \A k, m \in 1..Len(wire) : wire[k] \in Answer /\ wire[m] \in Answer => k = m
  /\ served \in Answer => \A k \in 1..Len(wire) : wire[k] \notin Answer

\* The panel asks for what it expects, or for what it expected when it asked.
AskInv ==
  asked # NoAsk =>
    asked.from <= expected[asked.job] /\ \A i \in omitted[asked.job] : i < asked.from

OmittedIsPast == \A j \in Jobs : \A i \in omitted[j] : i < expected[j]

Inv ==
  /\ TypeOK /\ BatchIsOfLast /\ AddsWhatIsWritten /\ WireInv /\ OneAnswer
  /\ AskInv /\ OmittedIsPast /\ TheLogDoesNotLie

-----------------------------------------------------------------------------
(* Maxima, kinds of messages, and the wire.                                 *)

LEMMA MaxOfTwo ==
  ASSUME NEW a \in Int, NEW b \in Int
  PROVE  /\ Max({a, b}) \in {a, b} /\ Max({a, b}) >= a /\ Max({a, b}) >= b
<1>1. \E x \in {a, b} : \A y \in {a, b} : x >= y
  BY SMT
<1> QED
  BY <1>1 DEF Max

LEMMA Kinds ==
  ASSUME NEW e \in Message
  PROVE  /\ e.kind = "log" <=> e \in LogEvents
         /\ e.kind = "answer" <=> e \in Answer
         /\ e.kind \in {"job", "state", "asks", "none"} <=> e \in Report
  BY DEF Message, LogEvents, Report, Answer, NoReport

LEMMA OnAppend ==
  ASSUME NEW v \in Seq(Message), NEW w \in Seq(Message)
  PROVE  v \o w \in Seq(Message) /\ On(v \o w) = On(v) \cup On(w)
<1>1. v \o w \in Seq(Message) /\ Len(v \o w) = Len(v) + Len(w)
  OBVIOUS
<1>2. \A k \in 1..Len(v) : (v \o w)[k] = v[k]
  OBVIOUS
<1>3. \A k \in 1..Len(w) : (v \o w)[Len(v) + k] = w[k]
  OBVIOUS
<1>4. On(v \o w) \subseteq On(v) \cup On(w)
  <2> SUFFICES ASSUME NEW k \in 1..Len(v \o w), k > Len(v) PROVE (v \o w)[k] \in On(w)
    BY <1>1, <1>2 DEF On
  <2>1. k - Len(v) \in 1..Len(w) /\ Len(v) + (k - Len(v)) = k
    BY <1>1
  <2> QED BY <2>1, <1>3 DEF On
<1>5. On(v) \subseteq On(v \o w)
  <2>1. 1..Len(v) \subseteq 1..Len(v \o w)
    BY <1>1
  <2> QED BY <2>1, <1>2 DEF On
<1>6. On(w) \subseteq On(v \o w)
  <2> SUFFICES ASSUME NEW k \in 1..Len(w) PROVE w[k] \in On(v \o w)
    BY DEF On
  <2>1. Len(v) + k \in 1..Len(v \o w)
    BY <1>1
  <2> QED BY <2>1, <1>3 DEF On
<1> QED BY <1>1, <1>4, <1>5, <1>6

LEMMA OnTail ==
  ASSUME NEW w \in Seq(Message), w # <<>>
  PROVE  /\ Tail(w) \in Seq(Message) /\ On(Tail(w)) \subseteq On(w)
         /\ Head(w) \in On(w) /\ Head(w) \in Message
         /\ Len(Tail(w)) = Len(w) - 1
         /\ \A k \in 1..(Len(w) - 1) : Tail(w)[k] = w[k + 1]
<1>1. Len(w) > 0 /\ Tail(w) \in Seq(Message) /\ Len(Tail(w)) = Len(w) - 1
  OBVIOUS
<1>2. \A k \in 1..(Len(w) - 1) : Tail(w)[k] = w[k + 1]
  OBVIOUS
<1>3. Head(w) = w[1] /\ w[1] \in Message
  BY <1>1
<1> QED BY <1>1, <1>2, <1>3 DEF On

\* Whoever sends adds his events to the wire, or nothing.
LEMMA OnEmit ==
  ASSUME wire \in Seq(Message), NEW s \in Seq(Message), Emit(s)
  PROVE  wire' \in Seq(Message) /\ On(wire') \subseteq On(wire) \cup On(s)
  BY OnAppend DEF Emit

-----------------------------------------------------------------------------
(* Events made of a batch.                                                  *)

\* A batch is sent as it is.
LEMMA FlushedIsSound ==
  ASSUME Inv
  PROVE  /\ Flushed(batch) \in Seq(Message)
         /\ \A e \in On(Flushed(batch)) : e \in LogEvents /\ LogIsSound(e)
         /\ Flushed(batch) = <<>> \/ Flushed(batch) = <<LogEvent(batch)>>
<1>1. CASE batch.lines = <<>>
  BY <1>1 DEF Flushed, On
<1>2. CASE batch.lines # <<>>
  <2> DEFINE e == LogEvent(batch)
  <2>1. batch.job \in Jobs /\ Runs(batch) /\ batch.seq + Len(batch.lines) <= written[batch.job]
    BY <1>2 DEF Inv, BatchIsOfLast, Given, TypeOK, Batch
  <2>2. e \in LogEvents /\ LogIsSound(e)
    BY <1>2, <2>1 DEF Inv, TypeOK, Batch, LogEvent, LogEvents, LogIsSound, Runs
  <2>3. Flushed(batch) = <<e>>
    BY <1>2 DEF Flushed
  <2>4. <<e>> \in Seq(Message) /\ \A f \in On(<<e>>) : f = e
    BY <2>2 DEF Message, On
  <2> QED BY <2>2, <2>3, <2>4
<1> QED BY <1>1, <1>2

LEMMA LinesExcept ==
  \A b \in Batch : \A l : [b EXCEPT !.lines = l] = [job |-> b.job, seq |-> b.seq, lines |-> l]
  BY DEF Batch

\* The batch that a line is added to.
LEMMA StartedRuns ==
  ASSUME Inv, NEW j \in Jobs, worker[j] = "adds"
  PROVE  LET i == written[j] - 1
             new == [Started(j, i) EXCEPT !.lines = Append(@, [job |-> j, i |-> i])]
         IN  /\ new \in Batch /\ new.job = j /\ new.lines # <<>> /\ Runs(new)
             /\ Len(new.lines) <= MAXLINES
             /\ new.seq + Len(new.lines) = written[j]
             /\ LogEvent(new) \in LogEvents /\ LogIsSound(LogEvent(new))
<1> DEFINE i == written[j] - 1
           old == Started(j, i)
           new == [old EXCEPT !.lines = Append(@, [job |-> j, i |-> i])]
<1>1. i \in 0..(Lines - 1) /\ written[j] \in 1..Lines
  BY DEF Inv, TypeOK, AddsWhatIsWritten
<1>2. /\ old \in Batch /\ old.job = j /\ Runs(old) /\ old.seq + Len(old.lines) = i
      /\ Len(old.lines) < MAXLINES
  <2>1. CASE batch.lines = <<>> \/ batch.job # j
    BY <2>1, <1>1 DEF Started, Batch, Runs
  <2>2. CASE ~(batch.lines = <<>> \/ batch.job # j)
    BY <2>2, <1>1 DEF Started, Inv, TypeOK, BatchIsOfLast, Given
  <2> QED BY <2>1, <2>2
<1> HIDE DEF old
<1>3. old.lines \in Seq(Line) /\ old.seq \in 0..Lines /\ [job |-> j, i |-> i] \in Line
  BY <1>1, <1>2 DEF Batch, Line
<1>4. /\ new = [job |-> j, seq |-> old.seq, lines |-> Append(old.lines, [job |-> j, i |-> i])]
  BY <1>2, LinesExcept, Zenon
<1>5. /\ new.lines \in Seq(Line) /\ Len(new.lines) = Len(old.lines) + 1
      /\ \A k \in 1..Len(old.lines) : new.lines[k] = old.lines[k]
      /\ new.lines[Len(old.lines) + 1] = [job |-> j, i |-> i]
  BY <1>3, <1>4
<1>6. Len(old.lines) \in Nat
  BY <1>3
<1>7. new.job = j /\ new.seq = old.seq
  BY <1>4
<1> HIDE DEF new
<1>8. Runs(new)
  <2> SUFFICES ASSUME NEW k \in 1..Len(new.lines)
               PROVE  new.lines[k] = [job |-> j, i |-> old.seq + k - 1]
    BY <1>7 DEF Runs
  <2>1. CASE k \in 1..Len(old.lines)
    BY <2>1, <1>2, <1>5 DEF Runs
  <2>2. CASE k = Len(old.lines) + 1
    <3>1. old.seq + k - 1 = i
      BY <2>2, <1>2, <1>3, <1>6, <1>1
    <3> QED BY <3>1, <2>2, <1>5
  <2> QED BY <2>1, <2>2, <1>5, <1>6
<1>9. new \in Batch /\ new.seq + Len(new.lines) = written[j] /\ Len(new.lines) <= MAXLINES
  <2>1. new \in Batch
    BY <1>1, <1>3, <1>4, <1>5 DEF Batch
  <2>2. new.seq + Len(new.lines) = written[j] /\ Len(new.lines) <= MAXLINES
    <3>1. Len(old.lines) < MAXLINES /\ old.seq + Len(old.lines) = i
      BY <1>2
    <3>2. i + 1 = written[j]
      BY <1>1
    <3>3. Len(new.lines) = Len(old.lines) + 1 /\ new.seq = old.seq /\ old.seq \in Nat
      BY <1>3, <1>5, <1>7
    <3> HIDE DEF i
    <3> QED BY <3>1, <3>2, <3>3, <1>6
  <2> QED BY <2>1, <2>2
<1>10. new.lines # <<>>
  BY <1>5, <1>6
<1>11. LogEvent(new) \in LogEvents
  BY <1>7, <1>5, <1>3 DEF LogEvent, LogEvents
<1>12. LogIsSound(LogEvent(new))
  BY <1>7, <1>8, <1>9, <1>10, <1>1 DEF LogEvent, LogIsSound, Runs
<1> QED BY <1>7, <1>8, <1>9, <1>10, <1>11, <1>12 DEF new, old

-----------------------------------------------------------------------------
(* What steps send.                                                         *)

\* What has been sent stays sound while lines are written and the panel learns.
LEMMA SoundStays ==
  ASSUME Inv, NEW e \in Message, Sound(e), omitted' = omitted,
         \A j \in Jobs : written'[j] \in Nat /\ written'[j] >= written[j],
         \A j \in Jobs : expected'[j] \in Nat /\ expected'[j] >= expected[j]
  PROVE  Sound(e)'
<1>1. CASE e \in LogEvents
  <2>1. e \notin Answer
    BY <1>1 DEF LogEvents, Answer
  <2>2. e.job \in Jobs /\ e.seq \in Nat /\ Len(e.lines) \in Nat
    BY <1>1 DEF LogEvents
  <2>3. LogIsSound(e) /\ written[e.job] \in Nat
    BY <1>1, <2>2 DEF Sound, Inv, TypeOK
  <2>4. written'[e.job] >= written[e.job] /\ written'[e.job] \in Nat
    BY <2>2
  <2>5. e.seq + Len(e.lines) <= written'[e.job]
    BY <2>2, <2>3, <2>4 DEF LogIsSound
  <2> QED BY <2>1, <2>3, <2>5 DEF Sound, LogIsSound, Runs
<1>2. CASE e \in Answer
  <2>1. e \notin LogEvents
    BY <1>2 DEF LogEvents, Answer
  <2>2. e.job \in Jobs /\ e.from \in Nat /\ e.next \in Nat
    BY <1>2 DEF Answer
  <2>3. Dropped(e.job)' >= Dropped(e.job) /\ Dropped(e.job) \in Nat /\ Dropped(e.job)' \in Nat
    <3>1. written[e.job] \in Nat /\ written'[e.job] \in Nat /\ written'[e.job] >= written[e.job]
      BY <2>2 DEF Inv, TypeOK
    <3> QED BY <3>1 DEF Dropped
  <2>4. AnswerIsSound(e)
    BY <1>2 DEF Sound
  <2>5. expected[e.job] \in Nat /\ written[e.job] \in Nat
    BY <2>2 DEF Inv, TypeOK
  <2> QED BY <2>1, <2>2, <2>3, <2>4, <2>5 DEF Sound, AnswerIsSound
<1>3. CASE e \notin LogEvents \cup Answer
  BY <1>3 DEF Sound
<1> QED BY <1>1, <1>2, <1>3

\* Sending what is sound and no answer.
LEMMA SendSound ==
  ASSUME Inv, NEW s \in Seq(Message), Emit(s), \A e \in On(s) : Sound(e) /\ e \notin Answer,
         UNCHANGED <<written, expected, omitted, served>>
  PROVE  WireInv' /\ OneAnswer'
<1>1. wire' \in Seq(Message) /\ On(wire') \subseteq On(wire) \cup On(s)
  BY OnEmit DEF Inv, WireInv
<1>2. \A e \in On(wire') : Sound(e)
  BY <1>1 DEF Inv, WireInv
<1>3. WireInv'
  BY <1>1, <1>2 DEF Inv, WireInv, Sound, LogIsSound, AnswerIsSound, Runs, Dropped
<1>4. CASE ~up
  <2>1. wire' = wire /\ OneAnswer
    BY <1>4 DEF Emit, Inv
  <2> QED BY <1>3, <2>1 DEF OneAnswer
<1>5. CASE up
  <2>1. wire' = wire \o s /\ wire \in Seq(Message)
    BY <1>5 DEF Emit, Inv, WireInv
  <2>2. Len(wire') = Len(wire) + Len(s) /\ Len(wire) \in Nat /\ Len(s) \in Nat
    BY <2>1
  <2>3. \A k \in 1..Len(wire') : wire'[k] \in Answer => k \in 1..Len(wire) /\ wire'[k] = wire[k]
    <3> SUFFICES ASSUME NEW k \in 1..Len(wire')
                 PROVE  wire'[k] \in Answer => k \in 1..Len(wire) /\ wire'[k] = wire[k]
      OBVIOUS
    <3>1. CASE k <= Len(wire)
      BY <3>1, <2>1, <2>2
    <3>2. CASE k > Len(wire)
      <4>1. wire'[k] = s[k - Len(wire)] /\ k - Len(wire) \in 1..Len(s)
        BY <3>2, <2>1, <2>2
      <4> QED BY <4>1 DEF On
    <3> QED BY <3>1, <3>2, <2>2
  <2>4. OneAnswer
    BY DEF Inv
  <2> QED BY <1>3, <2>2, <2>3, <2>4 DEF OneAnswer
<1> QED BY <1>3, <1>4, <1>5

LEMMA NothingIsSent ==
  ASSUME Inv, UNCHANGED <<wire, served, written, expected, omitted>>
  PROVE  WireInv' /\ OneAnswer'
  BY DEF Inv, WireInv, OneAnswer, On, Sound, LogIsSound, AnswerIsSound, Runs, Dropped

\* What _on_job_change() sends.
LEMMA TellsIsSound ==
  ASSUME Inv, NEW j \in Jobs, NEW is \in {"running", "ended"}, Tells(j, is),
         UNCHANGED <<written, expected, omitted, served>>
  PROVE  WireInv' /\ OneAnswer'
<1> DEFINE s == Append(Flushed(batch), JobEvent(j, is))
<1>1. JobEvent(j, is) \in Report /\ JobEvent(j, is) \in Message
  BY DEF JobEvent, Report, Message
<1>2. JobEvent(j, is) \notin LogEvents \cup Answer
  BY DEF JobEvent, LogEvents, Answer
<1>3. s = Flushed(batch) \o <<JobEvent(j, is)>> /\ <<JobEvent(j, is)>> \in Seq(Message)
  BY <1>1, FlushedIsSound
<1>4. On(<<JobEvent(j, is)>>) = {JobEvent(j, is)}
  BY DEF On
<1>5. s \in Seq(Message) /\ On(s) = On(Flushed(batch)) \cup {JobEvent(j, is)}
  <2> HIDE DEF s
  <2>1. Flushed(batch) \in Seq(Message)
    BY FlushedIsSound
  <2> QED BY <1>3, <1>4, <2>1, OnAppend
<1>6. \A e \in On(Flushed(batch)) : Sound(e) /\ e \notin Answer
  <2> SUFFICES ASSUME NEW e \in LogEvents PROVE e \notin Answer
    BY FlushedIsSound DEF Sound
  <2> QED BY DEF LogEvents, Answer
<1>7. \A e \in On(s) : Sound(e) /\ e \notin Answer
  BY <1>2, <1>5, <1>6 DEF Sound
<1>8. Emit(s)
  BY DEF Tells
<1> HIDE DEF s
<1> QED BY <1>5, <1>7, <1>8, SendSound

\* What add() sends: the batch of another job, and the one that got full.
LEMMA AddSends ==
  ASSUME Inv, NEW j \in Jobs, AddLine(j)
  PROVE  \E s \in Seq(Message) :
           Emit(s) /\ \A e \in On(s) : e \in LogEvents /\ LogIsSound(e)
<1> DEFINE i == written[j] - 1
           new == [Started(j, i) EXCEPT !.lines = Append(@, [job |-> j, i |-> i])]
           old == IF batch.job = j THEN <<>> ELSE Flushed(batch)
           s == IF Full(new) THEN Append(old, LogEvent(new)) ELSE old
<1>1. LogEvent(new) \in LogEvents /\ LogIsSound(LogEvent(new))
  BY StartedRuns DEF AddLine
<1>2. old \in Seq(Message) /\ \A e \in On(old) : e \in LogEvents /\ LogIsSound(e)
  BY FlushedIsSound DEF On
<1>3. Emit(s)
  BY DEF AddLine
<1> HIDE DEF new, old
<1>4. s \in Seq(Message) /\ \A e \in On(s) : e \in LogEvents /\ LogIsSound(e)
  <2>1. <<LogEvent(new)>> \in Seq(Message) /\ On(<<LogEvent(new)>>) = {LogEvent(new)}
    BY <1>1 DEF Message, On
  <2>2. Append(old, LogEvent(new)) = old \o <<LogEvent(new)>>
    BY <1>1, <1>2 DEF Message
  <2>3. Append(old, LogEvent(new)) \in Seq(Message)
        /\ On(Append(old, LogEvent(new))) = On(old) \cup {LogEvent(new)}
    <3> DEFINE x == <<LogEvent(new)>>
    <3> HIDE DEF x
    <3>1. old \o x \in Seq(Message) /\ On(old \o x) = On(old) \cup On(x)
      BY <1>2, <2>1, OnAppend DEF x
    <3> QED BY <3>1, <2>1, <2>2, Zenon DEF x
  <2>4. CASE Full(new)
    BY <2>3, <2>4, <1>1, <1>2
  <2>5. CASE ~Full(new)
    BY <2>5, <1>2
  <2> QED BY <2>4, <2>5
<1> QED BY <1>3, <1>4

LEMMA AddSendsSound ==
  ASSUME Inv, NEW j \in Jobs, AddLine(j)
  PROVE  WireInv' /\ OneAnswer'
<1>1. PICK s \in Seq(Message) :
        Emit(s) /\ \A e \in On(s) : e \in LogEvents /\ LogIsSound(e)
  BY AddSends
<1>2. \A e \in LogEvents : e \notin Answer
  BY DEF LogEvents, Answer
<1>3. UNCHANGED <<written, expected, omitted, served>>
  BY DEF AddLine, panelVars
<1> QED BY <1>1, <1>2, <1>3, SendSound DEF Sound

\* A thread's own events, one at a time.
LEMMA ReportIsSound ==
  ASSUME Inv, NEW e \in Report, Emit(<<e>>), UNCHANGED <<written, expected, omitted, served>>
  PROVE  WireInv' /\ OneAnswer'
<1>1. e \in Message /\ e \notin LogEvents \cup Answer
  BY DEF Message, Report, LogEvents, Answer, NoReport
<1>2. <<e>> \in Seq(Message) /\ On(<<e>>) = {e}
  BY <1>1 DEF On
<1> QED BY <1>1, <1>2, SendSound DEF Sound

LEMMA AnswerGoesOut ==
  ASSUME Inv, SendAnswer
  PROVE  WireInv' /\ OneAnswer'
<1>1. served \in Answer /\ AnswerIsSound(served) /\ served' = NoReport /\ NoReport \notin Answer
  BY DEF SendAnswer, Inv, TypeOK, WireInv, Answer, NoReport
<1>2. /\ wire \in Seq(Message) /\ \A k \in 1..Len(wire) : wire[k] \notin Answer
      /\ \A e \in On(wire) : Sound(e)
  BY <1>1 DEF Inv, WireInv, OneAnswer
<1>3. Emit(<<served>>) /\ UNCHANGED <<written, expected, omitted>>
  BY DEF SendAnswer, agentVars, panelVars
<1>4. <<served>> \in Seq(Message) /\ On(<<served>>) = {served} /\ Sound(served)
  BY <1>1 DEF Message, On, Sound, LogEvents, Answer
<1>5. wire' \in Seq(Message) /\ \A e \in On(wire') : Sound(e)
  BY <1>2, <1>3, <1>4, OnEmit
<1>6. WireInv'
  BY <1>1, <1>3, <1>5 DEF WireInv, Sound, LogIsSound, AnswerIsSound, Runs, Dropped
<1>7. \A k \in 1..Len(wire') : wire'[k] \in Answer => k = Len(wire) + 1
  <2>1. CASE up
    <3>1. wire' = Append(wire, served)
      BY <2>1, <1>2, <1>3, <1>1 DEF Emit, Message
    <3>2. /\ Len(wire') = Len(wire) + 1
          /\ \A k \in 1..Len(wire) : wire'[k] = wire[k]
      BY <3>1, <1>2
    <3> QED BY <3>2, <1>2
  <2>2. CASE ~up
    BY <2>2, <1>2, <1>3 DEF Emit
  <2> QED BY <2>1, <2>2
<1>8. OneAnswer'
  BY <1>1, <1>7 DEF OneAnswer
<1> QED BY <1>6, <1>8

\* The ring is read: the oldest line that is left, or the one asked for.
LEMMA RingIsRead ==
  ASSUME Inv, JobGet
  PROVE  WireInv' /\ OneAnswer' /\ served' \in Answer
<1> DEFINE j == asked.job
           f == asked.from
           a == LogSince(j, f)
<1>1. /\ j \in Jobs /\ f \in 0..Lines /\ f <= expected[j] /\ \A i \in omitted[j] : i < f
      /\ expected[j] \in 0..Lines /\ expected[j] <= written[j] /\ written[j] \in 0..Lines
      /\ omitted[j] \subseteq Nat
  BY DEF JobGet, Inv, TypeOK, Ask, AskInv, TheLogDoesNotLie
<1> HIDE DEF j, f
<1>2. Dropped(j) \in 0..written[j]
  BY <1>1 DEF Dropped
<1>3. /\ Max({f, Dropped(j)}) \in {f, Dropped(j)} /\ Max({f, Dropped(j)}) >= f
  BY <1>1, <1>2, MaxOfTwo
<1>4. /\ a.from = Max({f, Dropped(j)}) /\ a.next = written[j] /\ a.job = j
      /\ a.lines = [job : {j}, i : a.from..(a.next - 1)] /\ a.kind = "answer"
  BY DEF LogSince, InRing
<1>5. a.from \in 0..Lines /\ a.from <= a.next /\ a.next \in 0..Lines
  BY <1>1, <1>2, <1>3, <1>4
<1>6. a \in Answer
  <2>1. a.lines \subseteq Line
    BY <1>1, <1>4, <1>5 DEF Line
  <2> QED BY <2>1, <1>1, <1>4, <1>5 DEF Answer, LogSince
<1>7. AnswerIsSound(a)
  <2>1. \A i \in omitted[j] : i < a.from
    BY <1>1, <1>3, <1>4, <1>5
  <2>2. a.from <= expected[j] \/ a.from <= Dropped(j)
    BY <1>1, <1>2, <1>3, <1>4
  <2>3. a.job = j /\ a.next <= written[j] /\ a.lines = [job : {j}, i : a.from..(a.next - 1)]
    BY <1>1, <1>4, <1>5
  <2> HIDE DEF a
  <2> QED BY <2>1, <2>2, <2>3, <1>1, <1>5, Zenon DEF AnswerIsSound
<1>8. /\ served' = a /\ UNCHANGED <<wire, written, expected, omitted>>
      /\ \A k \in 1..Len(wire) : wire[k].kind # "answer"
  BY DEF JobGet, agentVars, panelVars, j, f
<1>9. \A k \in 1..Len(wire) : wire[k] \notin Answer
  BY <1>8 DEF Answer
<1> HIDE DEF a
<1>10. WireInv'
  BY <1>7, <1>8 DEF Inv, WireInv, Sound, LogIsSound, AnswerIsSound, Runs, Dropped
<1>11. OneAnswer'
  BY <1>8, <1>9 DEF OneAnswer
<1> QED BY <1>6, <1>8, <1>10, <1>11

-----------------------------------------------------------------------------
(* What the panel makes of it.                                              *)

\* Lines of one job, by their numbers.
Numbered(j, A) == [job : {j}, i : A]

LEMMA LinesOfRun ==
  ASSUME NEW e \in LogEvents, Runs(e)
  PROVE  Range(e.lines) = Numbered(e.job, e.seq..(e.seq + Len(e.lines) - 1))
<1>1. e.seq \in Nat /\ Len(e.lines) \in Nat
  BY DEF LogEvents
<1>2. ASSUME NEW l \in [job : {e.job}, i : e.seq..(e.seq + Len(e.lines) - 1)]
      PROVE  l \in {e.lines[k] : k \in 1..Len(e.lines)}
  <2>1. l = [job |-> e.job, i |-> l.i] /\ l.i \in e.seq..(e.seq + Len(e.lines) - 1)
    OBVIOUS
  <2>2. l.i - e.seq + 1 \in 1..Len(e.lines) /\ e.seq + (l.i - e.seq + 1) - 1 = l.i
    BY <1>1, <2>1
  <2> QED BY <2>1, <2>2 DEF Runs
<1>3. ASSUME NEW k \in 1..Len(e.lines)
      PROVE  e.lines[k] \in [job : {e.job}, i : e.seq..(e.seq + Len(e.lines) - 1)]
  <2>1. e.seq + k - 1 \in e.seq..(e.seq + Len(e.lines) - 1)
    BY <1>1
  <2>2. e.lines[k] = [job |-> e.job, i |-> e.seq + k - 1]
    BY DEF Runs
  <2> DEFINE n == e.seq + k - 1
             S == e.seq..(e.seq + Len(e.lines) - 1)
  <2> HIDE DEF n, S
  <2>3. n \in S => [job |-> e.job, i |-> n] \in [job : {e.job}, i : S]
    OBVIOUS
  <2> QED BY <2>1, <2>2, <2>3 DEF n, S
<1>4. Range(e.lines) = {e.lines[k] : k \in 1..Len(e.lines)}
  BY DEF LogEvents, Range
<1> QED BY <1>2, <1>3, <1>4 DEF Numbered

LEMMA LinesTogether ==
  ASSUME NEW j, NEW A, NEW B
  PROVE  Numbered(j, A) \cup Numbered(j, B) = Numbered(j, A \cup B)
  BY DEF Numbered

Learns(e) == wire # <<>> /\ e = Head(wire) /\ UNCHANGED <<agentVars, linkVars, served, scenario>>

LEMMA FirstIsSound ==
  ASSUME Inv, NEW e, Learns(e)
  PROVE  e \in Message /\ Sound(e)
  BY OnTail DEF Inv, WireInv, Learns

PanelInv == AskInv /\ OmittedIsPast /\ TheLogDoesNotLie

PanelTypeOK ==
  /\ seen \in [Jobs -> SUBSET Line] /\ expected \in [Jobs -> 0..Lines]
  /\ omitted \in [Jobs -> SUBSET (0..(Lines - 1))] /\ ended \subseteq Jobs
  /\ shows \in Jobs \cup {None} /\ asked \in Ask

Monotone == \A j \in Jobs : expected'[j] >= expected[j]

LEMMA LearnsLog ==
  ASSUME Inv, NEW e, Learns(e), e.kind = "log", SeesLog(e)
  PROVE  PanelTypeOK' /\ PanelInv' /\ Monotone /\ omitted' = omitted
<1>1. e \in LogEvents /\ LogIsSound(e)
  BY FirstIsSound, Kinds DEF Sound
<1>2. /\ e.job \in Jobs /\ e.seq \in 0..Lines /\ Len(e.lines) \in Nat /\ Runs(e)
      /\ e.seq + Len(e.lines) <= written[e.job]
  BY <1>1 DEF LogEvents, LogIsSound
<1>3. PanelTypeOK /\ PanelInv /\ written \in [Jobs -> 0..Lines] /\ written' = written
  BY DEF Inv, TypeOK, PanelTypeOK, PanelInv, Learns, agentVars
<1>4. UNCHANGED <<omitted, ended, shows>>
  BY DEF SeesLog
<1>5. CASE e.seq = expected[e.job]
  <2> DEFINE j == e.job
             n == e.seq + Len(e.lines)
  <2>1. /\ seen' = [seen EXCEPT ![j] = @ \cup Numbered(j, e.seq..(n - 1))]
        /\ expected' = [expected EXCEPT ![j] = n] /\ asked' = asked
    <3>1. Range(e.lines) = Numbered(e.job, e.seq..(e.seq + Len(e.lines) - 1))
      BY <1>1, <1>2, LinesOfRun
    <3>2. /\ seen' = [seen EXCEPT ![j] = @ \cup Range(e.lines)]
          /\ expected' = [expected EXCEPT ![j] = n] /\ asked' = asked
      BY <1>5 DEF SeesLog
    <3> DEFINE R == Range(e.lines)
               T == Numbered(j, e.seq..(n - 1))
    <3>3. R = T
      BY <3>1, <1>2
    <3> HIDE DEF R, T
    <3>4. seen' = [seen EXCEPT ![j] = @ \cup T]
      BY <3>2, <3>3 DEF R
    <3> QED BY <3>2, <3>4 DEF T
  <2>2. n \in 0..Lines /\ n <= written[j] /\ n >= expected[j] /\ j \in Jobs
    BY <1>2, <1>3, <1>5
  <2>3. Numbered(j, e.seq..(n - 1)) \subseteq Line
    BY <1>2, <2>2 DEF Line, Numbered
  <2> HIDE DEF n, j
  <2>4. PanelTypeOK'
    BY <1>3, <1>4, <2>1, <2>2, <2>3 DEF PanelTypeOK
  <2>5. Monotone
    BY <1>3, <2>1, <2>2 DEF Monotone, PanelTypeOK
  <2>6. AskInv' /\ OmittedIsPast'
    <3>1. \A x \in Jobs : omitted[x] \subseteq Nat /\ expected[x] \in Nat /\ expected'[x] \in Nat
      BY <1>3, <2>4 DEF PanelTypeOK
    <3>2. asked # NoAsk => asked.job \in Jobs /\ asked.from \in Nat
      BY <1>3 DEF PanelTypeOK, Ask
    <3>3. AskInv'
      BY <1>3, <1>4, <2>1, <2>5, <3>1, <3>2 DEF AskInv, PanelInv, Monotone
    <3>4. OmittedIsPast'
      BY <1>3, <1>4, <2>1, <2>5, <3>1, <3>2 DEF OmittedIsPast, PanelInv, Monotone
    <3> QED BY <3>3, <3>4
  <2>7. TheLogDoesNotLie'
    <3> SUFFICES ASSUME NEW x \in Jobs
                 PROVE  /\ seen'[x] = [job : {x}, i : (0..(expected'[x] - 1)) \ omitted[x]]
                        /\ expected'[x] <= written[x] /\ \A i \in omitted[x] : i < Dropped(x)
      BY <1>3, <1>4 DEF TheLogDoesNotLie, Dropped
    <3>1. CASE x # j
      BY <3>1, <1>3, <2>1 DEF TheLogDoesNotLie, PanelInv, PanelTypeOK
    <3>2. CASE x = j
      <4>1. /\ seen[j] = Numbered(j, (0..(expected[j] - 1)) \ omitted[j])
            /\ \A i \in omitted[x] : i < Dropped(x)
        BY <3>2, <1>3 DEF TheLogDoesNotLie, PanelInv, Numbered
      <4>2. seen'[j] = seen[j] \cup Numbered(j, e.seq..(n - 1)) /\ expected'[j] = n
        BY <1>3, <2>1, <2>2 DEF PanelTypeOK
      <4>3. \A i \in omitted[j] : i < e.seq /\ i \in Nat
        BY <1>3, <1>5, <2>2 DEF OmittedIsPast, PanelInv, PanelTypeOK, j
      <4>4. ((0..(e.seq - 1)) \ omitted[j]) \cup (e.seq..(n - 1)) = (0..(n - 1)) \ omitted[j]
        BY <4>3, <2>2, <1>2, <1>5 DEF j
      <4>5. seen'[j] = Numbered(j, (0..(n - 1)) \ omitted[j])
        <5>1. seen[j] = Numbered(j, (0..(e.seq - 1)) \ omitted[j])
          BY <4>1, <1>5 DEF j
        <5> DEFINE A == (0..(e.seq - 1)) \ omitted[j]
                   B == e.seq..(n - 1)
                   C == (0..(n - 1)) \ omitted[j]
        <5>2. A \cup B = C
          BY <4>4
        <5>3. seen'[j] = Numbered(j, A) \cup Numbered(j, B)
          BY <5>1, <4>2
        <5> HIDE DEF A, B, C
        <5>4. seen'[j] = Numbered(j, C)
          BY <5>2, <5>3, LinesTogether
        <5> QED BY <5>4 DEF C
      <4> QED BY <4>1, <4>2, <4>5, <3>2, <2>2 DEF Numbered
    <3> QED BY <3>1, <3>2
  <2> QED BY <1>4, <2>4, <2>5, <2>6, <2>7 DEF PanelInv
<1>6. CASE e.seq # expected[e.job]
  <2>1. /\ UNCHANGED <<seen, expected>>
        /\ \/ asked' = [job |-> e.job, from |-> expected[e.job], again |-> FALSE]
           \/ asked # NoAsk /\ asked' = [asked EXCEPT !.again = TRUE]
    BY <1>6 DEF SeesLog
  <2>2. PanelTypeOK' /\ AskInv'
    <3>1. CASE asked' = [job |-> e.job, from |-> expected[e.job], again |-> FALSE]
      <4>1. asked' \in Ask /\ asked'.from = expected[e.job] /\ asked'.job = e.job
        BY <3>1, <1>2, <1>3 DEF Ask, PanelTypeOK
      <4> QED BY <4>1, <1>2, <1>3, <1>4, <2>1
              DEF AskInv, PanelTypeOK, PanelInv, OmittedIsPast
    <3>2. CASE asked # NoAsk /\ asked' = [asked EXCEPT !.again = TRUE]
      <4>1. asked' \in Ask /\ asked'.from = asked.from /\ asked'.job = asked.job
        BY <3>2, <1>3 DEF Ask, PanelTypeOK
      <4> QED BY <4>1, <3>2, <1>3, <1>4, <2>1 DEF AskInv, PanelTypeOK, PanelInv
    <3> QED BY <3>1, <3>2, <2>1
  <2>3. Monotone
    BY <1>3, <2>1 DEF Monotone, PanelTypeOK
  <2> QED BY <1>3, <1>4, <2>1, <2>2, <2>3
          DEF PanelInv, OmittedIsPast, TheLogDoesNotLie, Dropped
<1> QED BY <1>5, <1>6

\* What else is on the wire when an answer is seen is no answer, and is so still sound.
LEMMA LearnsAnswer ==
  ASSUME Inv, NEW e, Learns(e), e.kind = "answer", SeesAnswer(e)
  PROVE  PanelTypeOK' /\ PanelInv' /\ Monotone
<1>1. e \in Answer /\ AnswerIsSound(e)
  BY FirstIsSound, Kinds DEF Sound
<1>2. PanelTypeOK /\ PanelInv /\ written \in [Jobs -> 0..Lines] /\ written' = written
  BY DEF Inv, TypeOK, PanelTypeOK, PanelInv, Learns, agentVars
<1>3. CASE UNCHANGED panelVars
  <2>1. PanelTypeOK'
    BY <1>2, <1>3 DEF PanelTypeOK, panelVars
  <2>2. PanelInv'
    BY <1>2, <1>3
       DEF panelVars, PanelInv, AskInv, OmittedIsPast, TheLogDoesNotLie, Dropped
  <2>3. Monotone
    BY <1>2, <1>3 DEF panelVars, Monotone, PanelTypeOK
  <2> QED BY <2>1, <2>2, <2>3
<1>4. CASE ~UNCHANGED panelVars
  <2> DEFINE j == e.job
             gone == expected[j]..(e.from - 1)
             top == Max({expected[j], e.next})
  <2>1. /\ asked # NoAsk /\ asked.job = j
        /\ seen' = [seen EXCEPT ![j] = @ \cup e.lines]
        /\ omitted' = [omitted EXCEPT ![j] = @ \cup gone]
        /\ expected' = [expected EXCEPT ![j] = top]
        /\ asked' = IF asked.again
                      THEN [asked EXCEPT !.from = expected'[j], !.again = FALSE] ELSE NoAsk
        /\ UNCHANGED <<ended, shows>>
    BY <1>4 DEF SeesAnswer
  <2>2. /\ j \in Jobs /\ e.from \in 0..Lines /\ e.next \in 0..Lines
        /\ e.lines = Numbered(j, e.from..(e.next - 1)) /\ e.lines \subseteq Line
        /\ e.from <= e.next /\ e.next <= written[j]
        /\ e.from <= expected[j] \/ e.from <= Dropped(j)
        /\ \A i \in omitted[j] : i < e.from
    BY <1>1 DEF Answer, AnswerIsSound, Numbered
  <2>3. /\ expected[j] \in 0..Lines /\ written[j] \in 0..Lines /\ expected[j] <= written[j]
        /\ omitted[j] \subseteq 0..(Lines - 1) /\ \A i \in omitted[j] : i < expected[j]
        /\ \A i \in omitted[j] : i < Dropped(j)
        /\ seen[j] = Numbered(j, (0..(expected[j] - 1)) \ omitted[j])
    BY <1>2, <2>2
       DEF PanelTypeOK, PanelInv, OmittedIsPast, TheLogDoesNotLie, Numbered
  <2>4. Dropped(j) \in 0..written[j]
    BY <2>3 DEF Dropped
  <2> HIDE DEF j
  <2>5. top \in {expected[j], e.next} /\ top >= expected[j] /\ top >= e.next
    <3>1. expected[j] \in Int /\ e.next \in Int
      BY <2>2, <2>3
    <3> QED BY <3>1, MaxOfTwo, Zenon
  <2> HIDE DEF top
  <2>6. top \in 0..Lines /\ top <= written[j]
    BY <2>2, <2>3, <2>5
  <2>7. /\ gone \subseteq 0..(Lines - 1)
        /\ \A i \in gone : i < Dropped(j) /\ i < top /\ i < e.from
    BY SMTT(40), <2>2, <2>3, <2>4, <2>5
  <2>8. ((0..(expected[j] - 1)) \ omitted[j]) \cup (e.from..(e.next - 1))
          = (0..(top - 1)) \ (omitted[j] \cup gone)
    <3>1. ASSUME NEW i \in Int
          PROVE  i \in ((0..(expected[j] - 1)) \ omitted[j]) \cup (e.from..(e.next - 1))
                   <=> i \in (0..(top - 1)) \ (omitted[j] \cup gone)
      BY <2>2, <2>3, <2>5, <2>6, <2>7
    <3> QED BY <3>1, <2>2, <2>3, <2>6
  <2> HIDE DEF gone
  <2>9. /\ expected'[j] = top /\ omitted'[j] = omitted[j] \cup gone
        /\ seen'[j] = seen[j] \cup e.lines
        /\ \A x \in Jobs \ {j} : /\ expected'[x] = expected[x] /\ omitted'[x] = omitted[x]
                                 /\ seen'[x] = seen[x]
    BY <1>2, <2>1, <2>2 DEF PanelTypeOK
  <2>10. seen'[j] = Numbered(j, (0..(top - 1)) \ omitted'[j])
    <3> DEFINE A == (0..(expected[j] - 1)) \ omitted[j]
               B == e.from..(e.next - 1)
               C == (0..(top - 1)) \ (omitted[j] \cup gone)
    <3>1. A \cup B = C
      BY <2>8
    <3>2. seen'[j] = Numbered(j, A) \cup Numbered(j, B)
      BY <2>2, <2>3, <2>9
    <3> HIDE DEF A, B, C
    <3>3. seen'[j] = Numbered(j, C)
      BY <3>1, <3>2, LinesTogether
    <3> QED BY <3>3, <2>9, <2>6 DEF C
  <2>11. PanelTypeOK'
    <3>1. asked' \in Ask
      BY <1>2, <2>1, <2>2, <2>6, <2>9 DEF PanelTypeOK, Ask
    <3> QED BY <1>2, <2>1, <2>2, <2>6, <2>7, <3>1 DEF PanelTypeOK
  <2>12. Monotone
    BY <1>2, <2>2, <2>5, <2>9 DEF Monotone, PanelTypeOK
  <2>13. OmittedIsPast'
    <3>1. \A x \in Jobs \ {j} : \A i \in omitted'[x] : i < expected'[x]
      BY <1>2, <2>9 DEF OmittedIsPast, PanelInv
    <3>2. \A i \in omitted[j] : i < top
      <4>1. \A i \in omitted[j] : i \in Int /\ i < expected[j]
        BY <2>3
      <4>2. expected[j] \in Int /\ top \in Int
        BY <2>3, <2>6
      <4> QED BY <4>1, <4>2, <2>5
    <3>3. \A i \in gone : i < top
      BY <2>7
    <3> QED BY <3>1, <3>2, <3>3, <2>9 DEF OmittedIsPast
  <2>14. AskInv'
    <3>1. CASE ~asked.again
      BY <2>1, <3>1 DEF AskInv
    <3>2. CASE asked.again
      <4>1. asked'.from = top /\ asked'.job = j
        BY <1>2, <2>1, <2>9, <3>2 DEF PanelTypeOK, Ask, NoAsk
      <4> QED BY <4>1, <2>2, <2>6, <2>9, <2>13 DEF AskInv, OmittedIsPast
    <3> QED BY <3>1, <3>2
  <2>15. TheLogDoesNotLie'
    <3> SUFFICES ASSUME NEW x \in Jobs
                 PROVE  /\ seen'[x] = Numbered(x, (0..(expected'[x] - 1)) \ omitted'[x])
                        /\ expected'[x] <= written[x]
                        /\ \A i \in omitted'[x] : i < Dropped(x)
      BY <1>2 DEF TheLogDoesNotLie, Dropped, Numbered
    <3>1. CASE x # j
      BY <3>1, <1>2, <2>9 DEF TheLogDoesNotLie, PanelInv, Numbered
    <3>2. CASE x = j
      BY <3>2, <2>3, <2>6, <2>7, <2>9, <2>10
    <3> QED BY <3>1, <3>2
  <2> QED BY <2>11, <2>12, <2>13, <2>14, <2>15 DEF PanelInv
<1> QED BY <1>3, <1>4

LEMMA LearnsState ==
  ASSUME Inv, NEW e, Learns(e),
         (SeesJob(e) /\ e.kind = "job") \/ (SeesState(e) /\ e.kind = "state")
  PROVE  PanelTypeOK' /\ PanelInv' /\ Monotone /\ omitted' = omitted
<1>1. /\ e \in Report /\ e.job \in Jobs \cup {None}
      /\ e.is = "ended" => e.job \in Jobs
      /\ e.kind = "job" => e.job \in Jobs
  <2>1. e \in Report
    BY FirstIsSound, Kinds
  <2> QED BY <2>1 DEF Report, NoReport
<1>2. PanelTypeOK /\ PanelInv /\ UNCHANGED written
  BY DEF Inv, TypeOK, PanelTypeOK, PanelInv, Learns, agentVars
<1>3. UNCHANGED <<seen, expected, omitted, asked>>
  BY DEF SeesJob, SeesState
<1>4. PanelTypeOK'
  BY <1>1, <1>2, <1>3 DEF PanelTypeOK, SeesJob, SeesState
<1>5. PanelInv'
  BY <1>2, <1>3 DEF PanelInv, AskInv, OmittedIsPast, TheLogDoesNotLie, Dropped
<1>6. Monotone
  BY <1>2, <1>3 DEF Monotone, PanelTypeOK
<1> QED BY <1>3, <1>4, <1>5, <1>6

LEMMA SeeNext ==
  ASSUME Inv, See
  PROVE  PanelTypeOK' /\ PanelInv' /\ WireInv' /\ OneAnswer'
<1> DEFINE e == Head(wire)
<1>1. /\ Learns(e) /\ wire' = Tail(wire) /\ UNCHANGED <<written, served>>
      /\ wire \in Seq(Message) /\ wire # <<>>
  BY DEF See, Learns, Inv, WireInv, agentVars
<1>2. \/ e.kind = "log" /\ SeesLog(e)
      \/ e.kind = "answer" /\ SeesAnswer(e)
      \/ (SeesJob(e) /\ e.kind = "job") \/ (SeesState(e) /\ e.kind = "state")
  BY Zenon DEF See
<1>3. e = Head(wire)
  OBVIOUS
<1> HIDE DEF e
<1>4. /\ wire' \in Seq(Message) /\ On(wire') \subseteq On(wire)
      /\ Len(wire') = Len(wire) - 1
      /\ \A k \in 1..(Len(wire) - 1) : wire'[k] = wire[k + 1]
  BY <1>1, OnTail
<1>5. OneAnswer'
  <2>1. OneAnswer
    BY DEF Inv
  <2>2. \A k \in 1..Len(wire') : k + 1 \in 1..Len(wire) /\ wire'[k] = wire[k + 1]
    BY <1>1, <1>4
  <2>3. \A k \in 1..Len(wire') : k \in Int
    OBVIOUS
  <2> QED BY <1>1, <2>1, <2>2, <2>3 DEF OneAnswer
<1>6. ASSUME PanelTypeOK', Monotone, omitted' = omitted
      PROVE  WireInv'
  <2>1. \A j \in Jobs : written'[j] \in Nat /\ written'[j] >= written[j]
    BY <1>1 DEF Inv, TypeOK
  <2>2. \A j \in Jobs : expected'[j] \in Nat /\ expected'[j] >= expected[j]
    BY <1>6 DEF PanelTypeOK, Monotone
  <2>3. \A x \in Message : Sound(x) => Sound(x)'
    BY <1>6, <2>1, <2>2, SoundStays
  <2>4. \A x \in On(wire') : x \in Message /\ Sound(x)
    BY <1>1, <1>4 DEF Inv, WireInv, On
  <2>5. \A x \in On(wire') : Sound(x)'
    BY <2>3, <2>4
  <2>6. served \in Answer => served \in Message /\ Sound(served)
    BY DEF Inv, WireInv, Sound, Message, LogEvents, Answer
  <2>7. served \in Answer => AnswerIsSound(served)'
    BY <1>1, <2>3, <2>6 DEF Sound, AnswerIsSound
  <2> QED BY <1>1, <1>4, <2>5, <2>7 DEF WireInv
<1>7. CASE e.kind = "log" /\ SeesLog(e)
  BY <1>1, <1>5, <1>6, <1>7, LearnsLog
<1>8. CASE e.kind = "answer" /\ SeesAnswer(e)
  <2>1. PanelTypeOK' /\ PanelInv'
    BY <1>1, <1>8, LearnsAnswer
  <2>2. e \in Answer /\ e = wire[1]
    BY <1>1, <1>3, <1>8, FirstIsSound, Kinds
  <2>3. served \notin Answer /\ \A k \in 1..Len(wire) : wire[k] \in Answer => k = 1
    BY <1>1, <2>2 DEF Inv, OneAnswer
  <2>4. \A x \in On(wire') : x \notin Answer
    BY <1>1, <1>4, <2>3 DEF On
  <2>5. \A x \in On(wire') : Sound(x)
    BY <1>4 DEF Inv, WireInv
  <2>6. \A x \in On(wire') : Sound(x)'
    BY <1>1, <2>4, <2>5 DEF Sound, LogIsSound, Runs
  <2> QED BY <1>1, <1>4, <1>5, <2>1, <2>3, <2>6 DEF WireInv
<1>9. CASE (SeesJob(e) /\ e.kind = "job") \/ (SeesState(e) /\ e.kind = "state")
  <2>1. PanelTypeOK' /\ PanelInv' /\ Monotone /\ omitted' = omitted
    BY <1>1, <1>9, LearnsState
  <2> QED BY <1>5, <1>6, <2>1
<1> QED BY <1>2, <1>7, <1>8, <1>9

-----------------------------------------------------------------------------
(* The steps, one after another.                                            *)

BatchInv == BatchIsOfLast /\ AddsWhatIsWritten

AgentTypeOK ==
  /\ current \in Jobs \cup {None}
  /\ worker \in [Jobs -> {"none", "new", "works", "adds", "ending", "told", "done"}]
  /\ over \subseteq Jobs /\ cancelled \subseteq Jobs
  /\ written \in [Jobs -> 0..Lines]
  /\ batch \in Batch /\ Len(batch.lines) < MAXLINES
  /\ up \in BOOLEAN /\ drops \in 0..scenario.drops /\ notices \in 0..scenario.notices
  /\ report \in [Reporters -> Report]
  /\ served \in Answer \cup {NoReport}
  /\ scenario \in Scenarios

LEMMA EmptiedIsBatch ==
  \A b \in Batch : Emptied(b) \in Batch /\ Emptied(b).lines = <<>>
<1>1. 0 \in 0..Lines /\ <<>> \in Seq(Line)
  OBVIOUS
<1> QED BY <1>1 DEF Batch, Emptied

LEMMA ReportType ==
  /\ \A j \in Jobs : JobEvent(j, Live(j)) \in Report /\ [kind |-> "asks", job |-> j] \in Report
  /\ NoReport \in Report
  /\ current \in Jobs \cup {None} /\ over \subseteq Jobs => Status \in Report
<1>1. None \notin Jobs
  BY DEF None, Jobs
<1> QED BY <1>1 DEF Report, JobEvent, NoReport, Status, Live

\* The worker of a job, and what is in the batch.
LEMMA WorkerNext ==
  ASSUME Inv, NEW j \in Jobs, WorkerStep(j)
  PROVE  AgentTypeOK' /\ BatchInv' /\ WireInv' /\ OneAnswer' /\ UNCHANGED panelVars
         /\ \A x \in Jobs : written'[x] \in Nat /\ written'[x] >= written[x]
<1> USE DEF BatchInv, BatchIsOfLast, AddsWhatIsWritten, Given
<1>1. AgentTypeOK /\ BatchInv /\ WireInv /\ OneAnswer
  BY DEF Inv, TypeOK, AgentTypeOK
<1>2. UNCHANGED <<panelVars, up, drops, notices, served, scenario>>
  BY DEF WorkerStep, TellStart, AppendLine, AddLine, TellProgress, Finish, EndJob, TellEnd,
         WorkerReads, linkVars
<1>3. CASE TellStart(j)
  <2>1. WireInv' /\ OneAnswer'
    BY <1>2, <1>3, TellsIsSound DEF TellStart, panelVars
  <2>2. /\ worker' = [worker EXCEPT ![j] = "works"] /\ batch' = Emptied(batch)
        /\ UNCHANGED <<current, over, cancelled, written, report>> /\ worker[j] = "new"
    BY <1>3 DEF TellStart, Tells, linkVars, jobVars
  <2> QED BY <1>1, <1>2, <2>1, <2>2, EmptiedIsBatch DEF AgentTypeOK
<1>4. CASE AppendLine(j)
  <2>1. /\ worker[j] = "works" /\ written[j] < Lines
        /\ written' = [written EXCEPT ![j] = @ + 1] /\ worker' = [worker EXCEPT ![j] = "adds"]
        /\ UNCHANGED <<current, over, cancelled, batch, report, wire>>
    BY <1>4 DEF AppendLine, linkVars, jobVars
  <2>2. \A x \in Jobs : written'[x] \in 0..Lines /\ written'[x] >= written[x]
    BY <1>1, <2>1 DEF AgentTypeOK
  <2>3. \A x \in Message : Sound(x) => Sound(x)'
    <3>1. \A x \in Jobs : expected'[x] \in Nat /\ expected'[x] >= expected[x]
      BY <1>2 DEF panelVars, Inv, TypeOK
    <3>2. \A x \in Jobs : written'[x] \in Nat
      BY <2>2
    <3> QED BY <1>2, <2>2, <3>1, <3>2, SoundStays DEF panelVars
  <2>4. served \in Answer => served \in Message /\ Sound(served)
    BY <1>1 DEF WireInv, Sound, Message, LogEvents, Answer
  <2>5. served \in Answer => AnswerIsSound(served)'
    BY <1>2, <2>3, <2>4 DEF Sound, AnswerIsSound
  <2>6. WireInv' /\ OneAnswer'
    BY <1>1, <1>2, <2>1, <2>3, <2>5 DEF WireInv, OneAnswer, On
  <2>7. AgentTypeOK'
    BY <1>1, <1>2, <2>1, <2>2 DEF AgentTypeOK
  <2>8. BatchInv'
    BY <1>1, <2>1, <2>2 DEF AgentTypeOK, Runs
  <2> QED BY <1>2, <2>2, <2>6, <2>7, <2>8 DEF AgentTypeOK
<1>5. CASE AddLine(j)
  <2> DEFINE i == written[j] - 1
             new == [Started(j, i) EXCEPT !.lines = Append(@, [job |-> j, i |-> i])]
  <2>1. /\ worker[j] = "adds" /\ worker' = [worker EXCEPT ![j] = "works"]
        /\ UNCHANGED <<current, over, cancelled, written, report>>
        /\ batch' = IF Full(new) THEN Emptied(new) ELSE new
    BY <1>5 DEF AddLine, linkVars, jobVars
  <2>2. /\ new \in Batch /\ new.job = j /\ new.lines # <<>> /\ Runs(new)
        /\ Len(new.lines) <= MAXLINES /\ new.seq + Len(new.lines) = written[j]
    BY <2>1, StartedRuns
  <2>3. WireInv' /\ OneAnswer'
    BY <1>5, AddSendsSound
  <2> HIDE DEF new
  <2>4. CASE Full(new)
    <3>1. batch' \in Batch /\ batch'.lines = <<>>
      BY <2>1, <2>2, <2>4, EmptiedIsBatch
    <3> QED BY <1>1, <1>2, <2>1, <2>3, <3>1 DEF AgentTypeOK
  <2>5. CASE ~Full(new)
    <3>1. batch' = new /\ Len(new.lines) < MAXLINES
      BY <2>1, <2>2, <2>5 DEF Full, Batch
    <3>2. AgentTypeOK'
      BY <1>1, <1>2, <2>1, <2>2, <3>1 DEF AgentTypeOK
    <3>3. BatchInv'
      BY <1>1, <2>1, <2>2, <3>1 DEF AgentTypeOK, Runs
    <3> QED BY <1>1, <1>2, <2>1, <2>3, <3>2, <3>3 DEF AgentTypeOK
  <2> QED BY <2>4, <2>5
<1>6. CASE TellProgress(j)
  <2>1. WireInv' /\ OneAnswer'
    BY <1>2, <1>6, TellsIsSound DEF TellProgress, panelVars
  <2>2. batch' = Emptied(batch) /\ UNCHANGED <<current, worker, over, cancelled, written, report>>
    BY <1>6 DEF TellProgress, Tells, linkVars, jobVars
  <2> QED BY <1>1, <1>2, <2>1, <2>2, EmptiedIsBatch DEF AgentTypeOK
<1>7. CASE EndJob(j)
  <2>1. /\ worker[j] = "works" /\ current' = None
        /\ worker' = [worker EXCEPT ![j] = "ending"]
        /\ UNCHANGED <<over, cancelled, written, batch, report, wire>>
    BY <1>7 DEF EndJob, linkVars, jobVars
  <2>2. WireInv' /\ OneAnswer'
    BY <1>2, <2>1, NothingIsSent DEF panelVars
  <2>3. AgentTypeOK'
    BY <1>1, <1>2, <2>1 DEF AgentTypeOK
  <2>4. BatchInv'
    BY <1>1, <2>1 DEF AgentTypeOK, Runs
  <2> QED BY <1>1, <1>2, <2>1, <2>2, <2>3, <2>4 DEF AgentTypeOK
<1>8. CASE TellEnd(j)
  <2>1. WireInv' /\ OneAnswer'
    BY <1>2, <1>8, TellsIsSound DEF TellEnd, panelVars
  <2>2. /\ worker' = [worker EXCEPT ![j] = "told"] /\ batch' = Emptied(batch)
        /\ UNCHANGED <<current, over, cancelled, written, report>> /\ worker[j] = "ending"
    BY <1>8 DEF TellEnd, Tells, linkVars, jobVars
  <2> QED BY <1>1, <1>2, <2>1, <2>2, EmptiedIsBatch DEF AgentTypeOK
<1>9. CASE WorkerReads(j)
  <2>1. /\ worker[j] = "told" /\ worker' = [worker EXCEPT ![j] = "done"]
        /\ report' = [report EXCEPT ![j] = Status]
        /\ UNCHANGED <<current, over, cancelled, written, batch, wire>>
    BY <1>9 DEF WorkerReads, Reads, jobVars
  <2>2. WireInv' /\ OneAnswer'
    BY <1>2, <2>1, NothingIsSent DEF panelVars
  <2>3. AgentTypeOK'
    BY <1>1, <1>2, <2>1, ReportType DEF AgentTypeOK, Reporters
  <2>4. BatchInv'
    BY <1>1, <2>1 DEF AgentTypeOK, Runs
  <2> QED BY <1>1, <1>2, <2>1, <2>2, <2>3, <2>4 DEF AgentTypeOK
<1>10. CASE Finish(j)
  <2>1. /\ over' = over \cup {j}
        /\ UNCHANGED <<current, worker, cancelled, written, batch, report, wire>>
    BY <1>10 DEF Finish, linkVars
  <2>2. WireInv' /\ OneAnswer'
    BY <1>2, <2>1, NothingIsSent DEF panelVars
  <2>3. AgentTypeOK'
    BY <1>1, <1>2, <2>1 DEF AgentTypeOK
  <2>4. BatchInv'
    BY <1>1, <2>1 DEF Runs
  <2> QED BY <1>1, <1>2, <2>1, <2>2, <2>3, <2>4 DEF AgentTypeOK
<1> QED BY <1>2, <1>3, <1>4, <1>5, <1>6, <1>7, <1>8, <1>9, <1>10 DEF WorkerStep

\* Everybody else on the agent's side, and the connection.
LEMMA OthersNext ==
  ASSUME Inv, \/ \E j \in Jobs : Submit(j) \/ Cancel(j)
              \/ \E x \in Reporters : SendReport(x)
              \/ Tick \/ Reconnect \/ JobGet \/ SendAnswer \/ ReaderReads \/ Drop
              \/ CancellerReads
  PROVE  AgentTypeOK' /\ BatchInv' /\ WireInv' /\ OneAnswer' /\ UNCHANGED written
         /\ UNCHANGED <<seen, expected, omitted, ended, shows>> /\ asked' \in {asked, NoAsk}
<1> USE DEF BatchInv, BatchIsOfLast, AddsWhatIsWritten, Given
<1>1. AgentTypeOK /\ BatchInv /\ WireInv /\ OneAnswer
  BY DEF Inv, TypeOK, AgentTypeOK
<1>2. ASSUME UNCHANGED <<wire, served, written, expected, omitted>> PROVE WireInv' /\ OneAnswer'
  BY <1>1, <1>2
     DEF WireInv, OneAnswer, On, Sound, LogIsSound, AnswerIsSound, Runs, Dropped
<1>3. ASSUME UNCHANGED <<batch, written, worker>> PROVE BatchInv'
  BY <1>1, <1>3 DEF Runs
<1>4. ASSUME NEW j \in Jobs, Submit(j)
      PROVE  AgentTypeOK' /\ BatchInv' /\ WireInv' /\ OneAnswer' /\ UNCHANGED <<written, panelVars>>
  <2>1. /\ worker[j] = "none" /\ current' = j /\ worker' = [worker EXCEPT ![j] = "new"]
        /\ UNCHANGED <<over, cancelled, written, batch, linkVars, wire, panelVars, served, scenario>>
    BY <1>4 DEF Submit, jobVars
  <2>2. WireInv' /\ OneAnswer'
    BY <1>2, <2>1 DEF panelVars
  <2>3. AgentTypeOK'
    BY <1>1, <2>1 DEF AgentTypeOK, linkVars
  <2>4. BatchInv'
    BY <1>1, <2>1 DEF AgentTypeOK, Runs
  <2> QED BY <2>1, <2>2, <2>3, <2>4
<1>5. ASSUME NEW x \in Reporters, SendReport(x)
      PROVE  AgentTypeOK' /\ BatchInv' /\ WireInv' /\ OneAnswer' /\ UNCHANGED <<written, panelVars>>
  <2>1. /\ Emit(<<report[x]>>) /\ report' = [report EXCEPT ![x] = ThenReads(x)]
        /\ UNCHANGED <<agentVars, up, drops, notices, panelVars, served, scenario>>
    BY <1>5 DEF SendReport
  <2>6. ThenReads(x) \in Report
    BY <1>1, ReportType DEF ThenReads, AgentTypeOK
  <2>2. report[x] \in Report
    BY <1>1 DEF AgentTypeOK
  <2>3. WireInv' /\ OneAnswer'
    BY <2>1, <2>2, ReportIsSound DEF agentVars, panelVars
  <2>4. AgentTypeOK'
    BY <1>1, <2>1, <2>6 DEF AgentTypeOK, agentVars, jobVars
  <2>5. BatchInv'
    BY <1>3, <2>1 DEF agentVars
  <2> QED BY <2>1, <2>3, <2>4, <2>5 DEF agentVars
<1>6. CASE Tick
  <2>1. /\ Emit(Flushed(batch)) /\ batch' = Emptied(batch)
        /\ UNCHANGED <<current, worker, over, cancelled, written, linkVars, panelVars, served,
                       scenario>>
    BY <1>6 DEF Tick, jobVars
  <2>2. \A e \in LogEvents : e \notin Answer
    BY DEF LogEvents, Answer
  <2>3. WireInv' /\ OneAnswer'
    BY <2>1, <2>2, FlushedIsSound, SendSound DEF Sound, panelVars
  <2>4. AgentTypeOK'
    BY <1>1, <2>1, EmptiedIsBatch DEF AgentTypeOK, linkVars
  <2>5. BatchInv'
    BY <1>1, <2>1, EmptiedIsBatch DEF AgentTypeOK
  <2> QED BY <2>1, <2>3, <2>4, <2>5 DEF panelVars
<1>7. CASE Reconnect \/ ReaderReads
  <2>1. /\ UNCHANGED <<agentVars, drops, wire, panelVars, served, scenario>>
        /\ up' \in BOOLEAN
        /\ \E x \in Reporters : report' = [report EXCEPT ![x] = Status]
        /\ notices' \in {notices, notices + 1} /\ (notices' # notices => notices < scenario.notices)
    BY <1>1, <1>7 DEF Reconnect, ReaderReads, Reads, Reporters, AgentTypeOK
  <2>2. WireInv' /\ OneAnswer'
    BY <1>2, <2>1 DEF agentVars, panelVars
  <2>3. scenario.notices \in Nat
    BY <1>1, JobLogAssumption DEF AgentTypeOK
  <2>4. AgentTypeOK'
    BY <1>1, <2>1, <2>3, ReportType DEF AgentTypeOK, agentVars, jobVars
  <2>5. BatchInv'
    BY <1>3, <2>1 DEF agentVars
  <2> QED BY <2>1, <2>2, <2>4, <2>5 DEF agentVars, panelVars
<1>8. CASE JobGet
  <2>1. UNCHANGED <<agentVars, linkVars, wire, panelVars, scenario>>
    BY <1>8 DEF JobGet
  <2>2. WireInv' /\ OneAnswer' /\ served' \in Answer
    BY <1>8, RingIsRead
  <2>3. AgentTypeOK'
    BY <1>1, <2>1, <2>2 DEF AgentTypeOK, agentVars, jobVars, linkVars
  <2>4. BatchInv'
    BY <1>3, <2>1 DEF agentVars
  <2> QED BY <2>1, <2>2, <2>3, <2>4 DEF agentVars, panelVars
<1>9. CASE SendAnswer
  <2>1. served' = NoReport /\ UNCHANGED <<agentVars, linkVars, panelVars, scenario>>
    BY <1>9 DEF SendAnswer
  <2>2. WireInv' /\ OneAnswer'
    BY <1>9, AnswerGoesOut
  <2>3. AgentTypeOK'
    BY <1>1, <2>1, <2>2 DEF AgentTypeOK, agentVars, jobVars, linkVars
  <2>4. BatchInv'
    BY <1>3, <2>1 DEF agentVars
  <2> QED BY <2>1, <2>2, <2>3, <2>4 DEF agentVars, panelVars
<1>10. CASE Drop
  <2>1. /\ up' = FALSE /\ drops < scenario.drops /\ drops' = drops + 1
        /\ wire' = <<>> /\ asked' = NoAsk /\ served' = NoReport
        /\ UNCHANGED <<agentVars, report, notices, seen, expected, omitted, ended, shows, scenario>>
    BY <1>10 DEF Drop
  <2>2. NoReport \notin Answer
    BY DEF NoReport, Answer
  <2>3. WireInv' /\ OneAnswer'
    BY <2>1, <2>2 DEF WireInv, OneAnswer, On
  <2>4. scenario.drops \in Nat
    BY <1>1, JobLogAssumption DEF AgentTypeOK
  <2>5. AgentTypeOK'
    <3>1. drops' \in 0..scenario.drops
      BY <1>1, <2>1, <2>4 DEF AgentTypeOK
    <3> QED BY <1>1, <2>1, <3>1 DEF AgentTypeOK, agentVars, jobVars
  <2>6. BatchInv'
    BY <1>3, <2>1 DEF agentVars
  <2> QED BY <2>1, <2>3, <2>5, <2>6 DEF agentVars
<1>11. ASSUME NEW j \in Jobs, Cancel(j)
       PROVE  AgentTypeOK' /\ BatchInv' /\ WireInv' /\ OneAnswer' /\ UNCHANGED <<written, panelVars>>
  <2>1. /\ Emit(Flushed(batch)) /\ batch' = Emptied(batch) /\ cancelled' = cancelled \cup {j}
        /\ report' = [report EXCEPT ![Canceller] = [kind |-> "asks", job |-> j]]
        /\ UNCHANGED <<current, worker, over, written, up, drops, notices, panelVars, served,
                       scenario>>
    BY <1>11 DEF Cancel
  <2>2. \A e \in LogEvents : e \notin Answer
    BY DEF LogEvents, Answer
  <2>3. WireInv' /\ OneAnswer'
    BY <2>1, <2>2, FlushedIsSound, SendSound DEF Sound, panelVars
  <2>4. [kind |-> "asks", job |-> j] \in Report
    BY ReportType
  <2>7. /\ report' \in [Reporters -> Report] /\ cancelled' \subseteq Jobs
        /\ batch' \in Batch /\ batch'.lines = <<>>
    BY <1>1, <2>1, <2>4, EmptiedIsBatch DEF AgentTypeOK
  <2>8. Len(batch'.lines) = 0 /\ 0 < MAXLINES
    BY <2>7
  <2>5. AgentTypeOK'
    BY <1>1, <2>1, <2>7, <2>8 DEF AgentTypeOK
  <2>6. BatchInv'
    BY <1>1, <2>1, <2>7 DEF AgentTypeOK
  <2> QED BY <2>1, <2>3, <2>5, <2>6
<1>12. CASE CancellerReads
  <2> DEFINE j == report[Canceller].job
  <2>1. /\ report[Canceller].kind = "asks"
        /\ report' = [report EXCEPT ![Canceller] = JobEvent(j, Live(j))]
        /\ UNCHANGED <<agentVars, up, drops, notices, wire, panelVars, served, scenario>>
    BY <1>12 DEF CancellerReads, Reads
  <2>2. j \in Jobs
    BY <1>1, <2>1 DEF AgentTypeOK, Report, NoReport, Reporters
  <2>3. JobEvent(j, Live(j)) \in Report
    BY <2>2, ReportType
  <2> HIDE DEF j
  <2>4. WireInv' /\ OneAnswer'
    BY <1>2, <2>1 DEF agentVars, panelVars
  <2>5. AgentTypeOK'
    BY <1>1, <2>1, <2>3 DEF AgentTypeOK, agentVars, jobVars
  <2>6. BatchInv'
    BY <1>3, <2>1 DEF agentVars
  <2> QED BY <2>1, <2>4, <2>5, <2>6 DEF agentVars, panelVars
<1> QED BY <1>4, <1>5, <1>6, <1>7, <1>8, <1>9, <1>10, <1>11, <1>12 DEF panelVars

LEMMA InvIsAllOfThem ==
  Inv <=> AgentTypeOK /\ PanelTypeOK /\ BatchInv /\ WireInv /\ OneAnswer /\ PanelInv
  BY DEF Inv, TypeOK, AgentTypeOK, PanelTypeOK, BatchInv, PanelInv

\* The panel is not disturbed by lines it does not know of, nor by giving up a call.
LEMMA PanelUndisturbed ==
  ASSUME Inv, UNCHANGED <<seen, expected, omitted, ended, shows>>, asked' \in {asked, NoAsk},
         \A j \in Jobs : written'[j] \in Nat /\ written'[j] >= written[j]
  PROVE  PanelTypeOK' /\ PanelInv'
<1>1. PanelTypeOK /\ PanelInv
  BY DEF Inv, TypeOK, PanelTypeOK, PanelInv
<1>2. PanelTypeOK'
  BY <1>1 DEF PanelTypeOK, Ask
<1>3. AskInv' /\ OmittedIsPast'
  BY <1>1 DEF PanelInv, AskInv, OmittedIsPast
<1>4. TheLogDoesNotLie'
  <2> SUFFICES ASSUME NEW j \in Jobs
               PROVE  /\ expected[j] <= written'[j]
                      /\ \A i \in omitted[j] : i < Dropped(j)'
    BY <1>1 DEF PanelInv, TheLogDoesNotLie
  <2>1. /\ expected[j] \in Nat /\ written[j] \in Nat /\ omitted[j] \subseteq Nat
        /\ expected[j] <= written[j] /\ \A i \in omitted[j] : i < Dropped(j)
    BY <1>1 DEF PanelInv, TheLogDoesNotLie, PanelTypeOK, Inv, TypeOK
  <2>2. Dropped(j) \in Nat /\ Dropped(j)' \in Nat /\ Dropped(j) <= Dropped(j)'
    BY <2>1 DEF Dropped
  <2>3. \A i \in omitted[j] : i < Dropped(j)'
    BY <2>1, <2>2
  <2> QED BY <2>1, <2>3
<1> QED BY <1>2, <1>3, <1>4 DEF PanelInv

LEMMA InvInit == Init => Inv
<1> SUFFICES ASSUME Init PROVE Inv
  OBVIOUS
<1>1. NoBatch \in Batch /\ NoBatch.lines = <<>>
  BY DEF NoBatch, Batch
<1>2. \A s \in Scenarios : s.drops \in Nat /\ s.notices \in Nat
  BY JobLogAssumption
<1>3. AgentTypeOK
  BY <1>1, <1>2, ReportType DEF Init, AgentTypeOK
<1>4. PanelTypeOK
  BY DEF Init, PanelTypeOK, Ask
<1>5. BatchInv
  BY <1>1 DEF Init, BatchInv, BatchIsOfLast, AddsWhatIsWritten
<1>6. WireInv /\ OneAnswer
  BY DEF Init, WireInv, OneAnswer, On, NoReport, Answer
<1>7. PanelInv
  BY DEF Init, PanelInv, AskInv, OmittedIsPast, TheLogDoesNotLie
<1> QED BY <1>3, <1>4, <1>5, <1>6, <1>7, InvIsAllOfThem

LEMMA InvNext ==
  ASSUME Inv, [Next]_vars
  PROVE  Inv'
<1>1. CASE \E j \in Jobs : WorkerStep(j)
  <2>1. AgentTypeOK' /\ BatchInv' /\ WireInv' /\ OneAnswer'
    BY <1>1, WorkerNext
  <2>2. PanelTypeOK' /\ PanelInv'
    BY <1>1, WorkerNext, PanelUndisturbed DEF panelVars
  <2> QED BY <2>1, <2>2 DEF Inv, TypeOK, AgentTypeOK, PanelTypeOK, BatchInv, PanelInv
<1>2. CASE \/ \E j \in Jobs : Submit(j) \/ Cancel(j)
           \/ \E x \in Reporters : SendReport(x)
           \/ Tick \/ Reconnect \/ JobGet \/ SendAnswer \/ ReaderReads \/ Drop
           \/ CancellerReads
  <2>1. AgentTypeOK' /\ BatchInv' /\ WireInv' /\ OneAnswer' /\ UNCHANGED written
         /\ UNCHANGED <<seen, expected, omitted, ended, shows>> /\ asked' \in {asked, NoAsk}
    BY <1>2, OthersNext
  <2>2. \A j \in Jobs : written'[j] \in Nat /\ written'[j] >= written[j]
    BY <2>1 DEF Inv, TypeOK
  <2>3. PanelTypeOK' /\ PanelInv'
    BY <2>1, <2>2, PanelUndisturbed
  <2> QED BY <2>1, <2>3 DEF Inv, TypeOK, AgentTypeOK, PanelTypeOK, BatchInv, PanelInv
<1>3. CASE See
  <2>1. PanelTypeOK' /\ PanelInv' /\ WireInv' /\ OneAnswer'
    BY <1>3, SeeNext
  <2>2. UNCHANGED <<current, worker, over, cancelled, written, batch, up, report, drops, notices,
                   served, scenario>>
    BY <1>3 DEF See, agentVars, jobVars, linkVars
  <2>3. AgentTypeOK' /\ BatchInv'
    BY <2>2, InvIsAllOfThem
       DEF AgentTypeOK, BatchInv, BatchIsOfLast, AddsWhatIsWritten, Given, Runs
  <2> QED BY <2>1, <2>3 DEF Inv, TypeOK, AgentTypeOK, PanelTypeOK, BatchInv, PanelInv
<1>4. CASE UNCHANGED vars
  <2>1. AgentTypeOK' /\ PanelTypeOK'
    BY <1>4, InvIsAllOfThem DEF vars, agentVars, jobVars, linkVars, panelVars, AgentTypeOK, PanelTypeOK
  <2>2. BatchInv' /\ WireInv' /\ OneAnswer'
    BY <1>4, InvIsAllOfThem
       DEF vars, agentVars, jobVars, panelVars, BatchInv, BatchIsOfLast, AddsWhatIsWritten, Given, Runs,
           WireInv, OneAnswer, On, Sound, LogIsSound, AnswerIsSound, Dropped
  <2>3. PanelInv'
    BY <1>4, InvIsAllOfThem DEF vars, agentVars, jobVars, panelVars, PanelInv, AskInv, OmittedIsPast,
                                TheLogDoesNotLie, Dropped
  <2> QED BY <2>1, <2>2, <2>3 DEF Inv, TypeOK, AgentTypeOK, PanelTypeOK, BatchInv, PanelInv
<1> QED BY <1>1, <1>2, <1>3, <1>4 DEF Next, AgentStep

LEMMA Invariant == Spec => []Inv
  BY InvInit, InvNext, PTL DEF Spec

\* Every variable keeps its type; no batch is longer than MAX_LINES.
THEOREM TypeCorrect == Spec => []TypeOK
<1>1. Inv => TypeOK
  BY DEF Inv
<1> QED BY <1>1, Invariant, PTL

\* For any sizes of ring and batch and any losses: the panel shows the lines of a job up
\* to the one it expects, and omits but lines that have left the ring.
THEOREM LogNeverLies == Spec => []TheLogDoesNotLie
<1>1. Inv => TheLogDoesNotLie
  BY DEF Inv
<1> QED BY <1>1, Invariant, PTL

-----------------------------------------------------------------------------
(* With the connection up, lines arrive in their order and before the end.  *)

\* What the panel is still to be sent: what is on the wire, and then the batch.
Stream == wire \o Flushed(batch)

OfJob(e, j) == e \in LogEvents /\ e.job = j
EndOf(e) == e.seq + Len(e.lines)

\* An event that says that job j is over.
Ends(e, j) == e \in {JobEvent(j, "ended"), [kind |-> "state", job |-> j, is |-> "ended"]}

\* Nobody is about to tell of an end: a canceller that is under way found, and will find,
\* its job running.
NobodyEnds == \A x \in Reporters : \A j \in Jobs : ~Ends(report[x], j)

CancellerIsInTime ==
  /\ report[Canceller].kind # "state"
  /\ report[Canceller].kind # "none" => report[Canceller].job \notin over

Connected ==
  /\ up /\ asked = NoAsk /\ served = NoReport
  /\ \A k \in 1..Len(wire) : wire[k] \notin Answer
  /\ NobodyEnds /\ CancellerIsInTime /\ report[Service] = NoReport

\* Each event begins where the one before it ended, or later.
InTurn ==
  \A k, m \in 1..Len(Stream) : \A j \in Jobs :
    k < m /\ OfJob(Stream[k], j) /\ OfJob(Stream[m], j) => EndOf(Stream[k]) <= Stream[m].seq

\* The panel has seen none of these lines ...
Awaited ==
  /\ \A j \in Jobs : expected[j] <= Given(j)
  /\ \A k \in 1..Len(Stream) : \A j \in Jobs :
       OfJob(Stream[k], j) => expected[j] <= Stream[k].seq /\ EndOf(Stream[k]) <= Given(j)

\* ... and whatever it has not seen is among them.
NoneMissing ==
  \A j \in Jobs : \A i \in expected[j]..(Given(j) - 1) :
    \E k \in 1..Len(Stream) :
      OfJob(Stream[k], j) /\ Stream[k].seq <= i /\ i < EndOf(Stream[k])

\* The end of a job comes after its lines, and when its worker has done its work.
EndComesLast ==
  /\ \A k \in 1..Len(Stream) : \A j \in Jobs :
       Ends(Stream[k], j) =>
         /\ worker[j] \in {"told", "done"}
         /\ \A m \in (k + 1)..Len(Stream) : ~OfJob(Stream[m], j)
  /\ \A j \in ended :
       worker[j] \in {"told", "done"} /\ \A k \in 1..Len(Stream) : ~OfJob(Stream[k], j)

Ordered == InTurn /\ Awaited /\ NoneMissing /\ EndComesLast

OrderInv == scenario.drops = 0 /\ ~May("told_early") => Connected /\ Ordered

LEMMA StreamType ==
  ASSUME Inv
  PROVE  Stream \in Seq(Message)
  BY FlushedIsSound DEF Stream, Inv, WireInv

\* What _on_job_change() tells comes after everything else.
LEMMA TellsLast ==
  ASSUME Inv, up, NEW j \in Jobs, NEW is \in {"running", "ended"}, Tells(j, is)
  PROVE  Stream' = Append(Stream, JobEvent(j, is))
<1> DEFINE e == JobEvent(j, is)
<1>1. wire \in Seq(Message) /\ Flushed(batch) \in Seq(Message) /\ e \in Message
  BY FlushedIsSound DEF Inv, WireInv, JobEvent, Message, Report
<1> HIDE DEF e
<1>2. wire' = wire \o Append(Flushed(batch), e)
  BY DEF Tells, Emit, e
<1>3. Flushed(batch') = <<>>
  BY DEF Tells, Emptied, Flushed
<1>4. wire \o Append(Flushed(batch), e) = Append(wire \o Flushed(batch), e)
  BY <1>1
<1>5. wire' \in Seq(Message)
  BY <1>1, <1>2
<1>6. wire' \o <<>> = wire'
  BY <1>5
<1> QED BY <1>2, <1>3, <1>4, <1>6 DEF Stream, e

LEMMA SameStream ==
  ASSUME Inv, Ordered, Stream' = Stream, UNCHANGED <<expected, ended>>,
         \A j \in Jobs : Given(j)' = Given(j),
         \A j \in Jobs : worker[j] \in {"told", "done"} => worker'[j] \in {"told", "done"}
  PROVE  Ordered'
<1> USE DEF Ordered
<1>1. InTurn'
  BY DEF InTurn
<1>2. Awaited'
  BY DEF Awaited
<1>3. NoneMissing'
  BY DEF NoneMissing
<1>4. EndComesLast'
  <2>1. ended \subseteq Jobs
    BY DEF Inv, TypeOK
  <2> QED BY <2>1 DEF EndComesLast
<1> QED BY <1>1, <1>2, <1>3, <1>4

\* Something that is no line comes in between, or at the end if it tells of an end.
LEMMA OneMore ==
  ASSUME Inv, Ordered, NEW e \in Message, e \notin LogEvents, NEW n \in 0..Len(Stream),
         Len(Stream') = Len(Stream) + 1, Stream'[n + 1] = e,
         \A k \in 1..n : Stream'[k] = Stream[k],
         \A k \in (n + 1)..Len(Stream) : Stream'[k + 1] = Stream[k],
         UNCHANGED <<expected, ended>>,
         \A j \in Jobs : Given(j)' = Given(j),
         \A j \in Jobs : worker[j] \in {"told", "done"} => worker'[j] \in {"told", "done"},
         \A j \in Jobs : Ends(e, j) => worker'[j] \in {"told", "done"} /\ n = Len(Stream)
  PROVE  Ordered'
<1> USE DEF Ordered
<1> DEFINE Before(k) == IF k <= n THEN k ELSE k - 1
           Now(k) == IF k <= n THEN k ELSE k + 1
<1>1. Len(Stream) \in Nat
  BY StreamType
<1>2. \A k \in 1..Len(Stream') :
        k # n + 1 => Before(k) \in 1..Len(Stream) /\ Stream'[k] = Stream[Before(k)]
  <2> SUFFICES ASSUME NEW k \in 1..Len(Stream'), k # n + 1
               PROVE  Before(k) \in 1..Len(Stream) /\ Stream'[k] = Stream[Before(k)]
    OBVIOUS
  <2>1. CASE k <= n
    BY <1>1, <2>1
  <2>2. CASE k > n + 1
    <3>1. k - 1 \in (n + 1)..Len(Stream) /\ (k - 1) + 1 = k /\ Before(k) = k - 1
      BY <1>1, <2>2
    <3>2. Stream'[(k - 1) + 1] = Stream[k - 1]
      BY <3>1
    <3> QED BY <1>1, <3>1, <3>2
  <2> QED BY <1>1, <2>1, <2>2
<1>3. \A k \in 1..Len(Stream) : Now(k) \in 1..Len(Stream') /\ Stream'[Now(k)] = Stream[k]
  BY <1>1
<1>4. \A k, m \in 1..Len(Stream') : k # n + 1 /\ m # n + 1 /\ k < m => Before(k) < Before(m)
  BY <1>1
<1> HIDE DEF Before, Now
<1>5. \A k \in 1..Len(Stream') : \A j \in Jobs : OfJob(Stream'[k], j) => k # n + 1
  BY DEF OfJob
<1>6. InTurn'
  BY <1>2, <1>4, <1>5 DEF InTurn
<1>7. Awaited'
  BY <1>2, <1>5 DEF Awaited
<1>8. NoneMissing'
  <2> SUFFICES ASSUME NEW j \in Jobs, NEW i \in expected[j]..(Given(j) - 1)
               PROVE  \E k \in 1..Len(Stream') :
                        /\ OfJob(Stream'[k], j) /\ Stream'[k].seq <= i
                        /\ i < EndOf(Stream'[k])
    BY DEF NoneMissing
  <2>1. PICK k \in 1..Len(Stream) :
          OfJob(Stream[k], j) /\ Stream[k].seq <= i /\ i < EndOf(Stream[k])
    BY DEF NoneMissing
  <2> QED BY <2>1, <1>3
<1>9. EndComesLast'
  <2>1. ASSUME NEW k \in 1..Len(Stream'), NEW j \in Jobs, Ends(Stream'[k], j)
        PROVE  /\ worker'[j] \in {"told", "done"}
               /\ \A m \in (k + 1)..Len(Stream') : ~OfJob(Stream'[m], j)
    <3>1. CASE k = n + 1
      BY <1>1, <2>1, <3>1
    <3>2. CASE k # n + 1
      <4>1. /\ worker[j] \in {"told", "done"}
            /\ \A m \in (Before(k) + 1)..Len(Stream) : ~OfJob(Stream[m], j)
        BY <1>2, <2>1, <3>2 DEF EndComesLast
      <4>2. ASSUME NEW m \in (k + 1)..Len(Stream'), OfJob(Stream'[m], j) PROVE FALSE
        <5>1. m \in 1..Len(Stream') /\ k < m
          BY <1>1
        <5>2. /\ Before(m) \in 1..Len(Stream) /\ Stream'[m] = Stream[Before(m)]
              /\ Before(k) < Before(m)
          BY <1>2, <1>4, <1>5, <3>2, <4>2, <5>1
        <5>3. Before(m) \in (Before(k) + 1)..Len(Stream)
          BY <1>1, <1>2, <3>2, <5>2
        <5> QED BY <4>1, <4>2, <5>2, <5>3
      <4> QED BY <4>1, <4>2
    <3> QED BY <3>1, <3>2
  <2>2. \A j \in ended' :
          worker'[j] \in {"told", "done"} /\ \A k \in 1..Len(Stream') : ~OfJob(Stream'[k], j)
    BY <1>2, <1>5 DEF EndComesLast, Inv, TypeOK
  <2> QED BY <2>1, <2>2 DEF EndComesLast
<1> QED BY <1>6, <1>7, <1>8, <1>9

\* A line is added: the last event gets longer, or there is one more.
LEMMA LongerByOne ==
  ASSUME Inv, Ordered, NEW w \in Seq(Message), NEW x \in Jobs, NEW e \in LogEvents,
         worker[x] = "adds", e.job = x, e.lines # <<>>, EndOf(e) = written[x],
         Stream' = Append(w, e),
         \/ Stream = w /\ e.seq = written[x] - 1
         \/ \E f \in LogEvents : /\ Stream = Append(w, f)
                               /\ f.job = x /\ f.seq = e.seq /\ EndOf(f) = written[x] - 1,
         UNCHANGED <<expected, ended, written>>, worker' = [worker EXCEPT ![x] = "works"]
  PROVE  Ordered'
<1> USE DEF Ordered
<1> DEFINE n == Len(w)
<1>1. /\ n \in Nat /\ Len(Stream') = n + 1 /\ Stream'[n + 1] = e
      /\ \A k \in 1..n : Stream'[k] = w[k]
  OBVIOUS
<1>2. /\ Len(Stream) \in {n, n + 1} /\ \A k \in 1..n : Stream[k] = w[k]
      /\ Len(Stream) = n + 1 =>
           /\ OfJob(Stream[n + 1], x) /\ Stream[n + 1].seq = e.seq
           /\ EndOf(Stream[n + 1]) = written[x] - 1
      /\ Len(Stream) = n => e.seq = written[x] - 1
  <2>1. CASE Stream = w /\ e.seq = written[x] - 1
    BY <2>1, <1>1
  <2>2. ASSUME NEW f \in LogEvents, Stream = Append(w, f), f.job = x, f.seq = e.seq,
               EndOf(f) = written[x] - 1
        PROVE  <1>2
    <3>1. f \in Message
      BY DEF Message
    <3>2. Len(Stream) = n + 1 /\ Stream[n + 1] = f /\ \A k \in 1..n : Stream[k] = w[k]
      BY <2>2, <3>1
    <3> QED BY <1>1, <2>2, <3>2 DEF OfJob
  <2> QED BY <2>1, <2>2
<1>3. /\ written[x] \in 1..Lines /\ Given(x) = written[x] - 1 /\ Given(x)' = written[x]
      /\ \A j \in Jobs \ {x} : Given(j)' = Given(j)
      /\ \A j \in Jobs : Given(j)' \in Nat /\ Given(j) \in Nat /\ expected[j] \in Nat
      /\ \A j \in Jobs \ {x} : worker'[j] = worker[j]
  <2>1. /\ written \in [Jobs -> 0..Lines] /\ expected \in [Jobs -> 0..Lines]
        /\ x \in DOMAIN worker /\ DOMAIN worker = Jobs
        /\ \A j \in Jobs : worker[j] = "adds" => written[j] > 0
    BY DEF Inv, TypeOK, AddsWhatIsWritten
  <2>2. worker'[x] = "works" /\ \A j \in Jobs \ {x} : worker'[j] = worker[j]
    BY <2>1
  <2> QED BY <2>1, <2>2 DEF Given
<1>4. /\ e.seq \in Nat /\ e.seq <= written[x] - 1 /\ OfJob(e, x)
      /\ \A j \in Jobs : OfJob(e, j) <=> j = x
  <2>1. Len(e.lines) > 0 /\ e.seq \in Nat
    BY DEF LogEvents
  <2> QED BY SMTT(40), <2>1, <1>3 DEF EndOf, OfJob
<1>5. 1..n \subseteq 1..Len(Stream) /\ 1..n \subseteq 1..Len(Stream')
  BY <1>1, <1>2
<1>6. \A k \in 1..n : Stream'[k] = Stream[k]
  BY <1>1, <1>2
<1>7. \A k \in 1..Len(Stream') : k \in 1..n \/ k = n + 1
  BY <1>1
<1>8. \A k \in 1..n : OfJob(Stream[k], x) => EndOf(Stream[k]) <= e.seq
  <2> SUFFICES ASSUME NEW k \in 1..n, OfJob(Stream[k], x) PROVE EndOf(Stream[k]) <= e.seq
    OBVIOUS
  <2>1. CASE Len(Stream) = n
    BY <2>1, <1>2, <1>3, <1>5 DEF Awaited
  <2>2. CASE Len(Stream) = n + 1
    <3>1. n + 1 \in 1..Len(Stream) /\ k < n + 1 /\ OfJob(Stream[n + 1], x)
      BY <2>2, <1>1, <1>2
    <3>2. EndOf(Stream[k]) <= Stream[n + 1].seq
      BY <3>1, <1>5 DEF InTurn
    <3> QED BY <3>2, <2>2, <1>2
  <2> QED BY <2>1, <2>2, <1>2
<1>9. expected[x] <= e.seq
  <2>1. CASE Len(Stream) = n
    BY <2>1, <1>2, <1>3 DEF Awaited
  <2>2. CASE Len(Stream) = n + 1
    <3>1. n + 1 \in 1..Len(Stream)
      BY <2>2, <1>1
    <3> QED BY <3>1, <2>2, <1>2 DEF Awaited
  <2> QED BY <2>1, <2>2, <1>2
<1> HIDE DEF n
<1>10. InTurn'
  <2> SUFFICES ASSUME NEW k \in 1..Len(Stream'), NEW m \in 1..Len(Stream'), NEW j \in Jobs,
                      k < m, OfJob(Stream'[k], j), OfJob(Stream'[m], j)
               PROVE  EndOf(Stream'[k]) <= Stream'[m].seq
    BY DEF InTurn
  <2>1. k \in 1..n
    BY <1>1, <1>7
  <2>2. CASE m \in 1..n
    BY <2>1, <2>2, <1>5, <1>6 DEF InTurn
  <2>3. CASE m = n + 1
    BY <2>1, <2>3, <1>1, <1>4, <1>6, <1>8
  <2> QED BY <2>2, <2>3, <1>7
<1>11. Awaited'
  <2>1. \A j \in Jobs : expected'[j] <= Given(j)'
    <3>1. \A j \in Jobs : expected[j] <= Given(j) /\ Given(j) <= Given(j)'
      BY <1>3 DEF Awaited
    <3> QED BY <3>1, <1>3
  <2>2. ASSUME NEW k \in 1..Len(Stream'), NEW j \in Jobs, OfJob(Stream'[k], j)
        PROVE  expected'[j] <= Stream'[k].seq /\ EndOf(Stream'[k]) <= Given(j)'
    <3>1. CASE k \in 1..n
      <4>1. expected[j] <= Stream[k].seq /\ EndOf(Stream[k]) <= Given(j) /\ EndOf(Stream[k]) \in Int
        <5>1. Stream[k] \in LogEvents
          BY <2>2, <3>1, <1>6 DEF OfJob
        <5>2. k \in 1..Len(Stream) /\ OfJob(Stream[k], j)
          BY <2>2, <3>1, <1>5, <1>6
        <5>3. expected[j] <= Stream[k].seq /\ EndOf(Stream[k]) <= Given(j)
          BY <5>2 DEF Awaited
        <5>4. EndOf(Stream[k]) \in Int
          BY <5>1 DEF EndOf, LogEvents
        <5> QED BY <5>3, <5>4
      <4>2. Given(j) \in Nat /\ Given(j)' \in Nat /\ Given(j) <= Given(j)'
        BY SMTT(40), <1>3
      <4> QED BY <4>1, <4>2, <3>1, <1>6
    <3>2. CASE k = n + 1
      BY <2>2, <3>2, <1>1, <1>3, <1>4, <1>9
    <3> QED BY <3>1, <3>2, <1>7
  <2> QED BY <2>1, <2>2 DEF Awaited
<1>12. NoneMissing'
  <2> SUFFICES ASSUME NEW j \in Jobs, NEW i \in expected[j]..(Given(j)' - 1)
               PROVE  \E k \in 1..Len(Stream') :
                        /\ OfJob(Stream'[k], j) /\ Stream'[k].seq <= i
                        /\ i < EndOf(Stream'[k])
    BY DEF NoneMissing
  <2>1. n + 1 \in 1..Len(Stream')
    BY <1>1
  <2>2. CASE j = x /\ i = written[x] - 1
    BY <2>1, <2>2, <1>1, <1>3, <1>4
  <2>3. CASE ~(j = x /\ i = written[x] - 1)
    <3>1. i \in expected[j]..(Given(j) - 1)
      BY <2>3, <1>3
    <3>2. PICK k \in 1..Len(Stream) :
            OfJob(Stream[k], j) /\ Stream[k].seq <= i /\ i < EndOf(Stream[k])
      BY <3>1 DEF NoneMissing
    <3>3. CASE k \in 1..n
      BY <3>2, <3>3, <1>5, <1>6
    <3>4. CASE k \notin 1..n
      <4>1. k = n + 1 /\ Len(Stream) = n + 1
        BY <3>4, <1>1, <1>2
      <4>2. j = x
        <5>1. OfJob(Stream[n + 1], j) /\ OfJob(Stream[n + 1], x)
          BY <4>1, <3>2, <1>2
        <5> QED BY <5>1 DEF OfJob
      <4>3. e.seq <= i /\ i < written[x] - 1
        BY <4>1, <3>2, <1>2
      <4>4. Stream'[n + 1] = e /\ EndOf(e) = written[x] /\ i < written[x]
        BY <4>3, <1>1, <1>3
      <4> QED BY <4>2, <4>3, <4>4, <2>1, <1>4
    <3> QED BY <3>3, <3>4
  <2> QED BY <2>2, <2>3
<1>13. EndComesLast'
  <2>1. ASSUME NEW k \in 1..Len(Stream'), NEW j \in Jobs, Ends(Stream'[k], j)
        PROVE  /\ worker'[j] \in {"told", "done"}
               /\ \A m \in (k + 1)..Len(Stream') : ~OfJob(Stream'[m], j)
    <3>1. k # n + 1
      BY <2>1, <1>1 DEF Ends, JobEvent, LogEvents
    <3>2. k \in 1..n
      BY <3>1, <1>7
    <3>3. /\ worker[j] \in {"told", "done"}
          /\ \A m \in (k + 1)..Len(Stream) : ~OfJob(Stream[m], j)
      BY <2>1, <3>2, <1>5, <1>6 DEF EndComesLast
    <3>4. j # x
      BY <3>3
    <3>5. ASSUME NEW m \in (k + 1)..Len(Stream') PROVE ~OfJob(Stream'[m], j)
      <4>1. m \in 1..n \/ m = n + 1
        BY <3>2, <1>1
      <4>2. CASE m \in 1..n
        <5>1. m \in (k + 1)..Len(Stream)
          BY <4>2, <3>2, <1>1, <1>2
        <5> QED BY <5>1, <4>2, <3>3, <1>6
      <4>3. CASE m = n + 1
        BY <4>3, <3>4, <1>1, <1>4
      <4> QED BY <4>1, <4>2, <4>3
    <3> QED BY <3>3, <3>4, <3>5, <1>3
  <2>2. ASSUME NEW j \in ended
        PROVE  worker'[j] \in {"told", "done"} /\ \A k \in 1..Len(Stream') : ~OfJob(Stream'[k], j)
    <3>1. /\ j \in Jobs /\ worker[j] \in {"told", "done"}
          /\ \A k \in 1..Len(Stream) : ~OfJob(Stream[k], j)
      BY DEF EndComesLast, Inv, TypeOK
    <3>2. j # x
      BY <3>1
    <3> QED BY <3>1, <3>2, <1>1, <1>3, <1>4, <1>5, <1>6, <1>7
  <2> QED BY <2>1, <2>2 DEF EndComesLast
<1> QED BY <1>10, <1>11, <1>12, <1>13

\* add(), in one step or with what was pending of another job.
LEMMA AddedToStream ==
  ASSUME Inv, up, NEW x \in Jobs, AddLine(x)
  PROVE  \E w \in Seq(Message), e \in LogEvents :
           /\ e.job = x /\ e.lines # <<>> /\ EndOf(e) = written[x] /\ Stream' = Append(w, e)
           /\ \/ Stream = w /\ e.seq = written[x] - 1
              \/ \E f \in LogEvents : /\ Stream = Append(w, f) /\ f.job = x /\ f.seq = e.seq
                                    /\ EndOf(f) = written[x] - 1
<1> DEFINE i == written[x] - 1
           new == [Started(x, i) EXCEPT !.lines = Append(@, [job |-> x, i |-> i])]
           old == IF batch.job = x THEN <<>> ELSE Flushed(batch)
           w == wire \o old
           e == LogEvent(new)
<1>1. /\ worker[x] = "adds" /\ wire' = wire \o (IF Full(new) THEN Append(old, e) ELSE old)
      /\ batch' = IF Full(new) THEN Emptied(new) ELSE new
  BY DEF AddLine, Emit
<1>2. /\ new \in Batch /\ new.job = x /\ new.lines # <<>>
      /\ new.seq + Len(new.lines) = written[x] /\ e \in LogEvents
  BY <1>1, StartedRuns
<1>3. Flushed(batch) \in Seq(Message) /\ old \in Seq(Message) /\ wire \in Seq(Message)
  BY FlushedIsSound DEF Inv, WireInv
<1>4. new.seq = Started(x, i).seq
  <2>1. Started(x, i) \in Batch
    BY <1>1 DEF Started, Inv, TypeOK, Batch, AddsWhatIsWritten
  <2>2. new = [job |-> Started(x, i).job, seq |-> Started(x, i).seq,
               lines |-> Append(Started(x, i).lines, [job |-> x, i |-> i])]
    BY <2>1, LinesExcept, Zenon
  <2> QED BY <2>2
<1> HIDE DEF new
<1>5. /\ e.job = x /\ e.lines # <<>> /\ EndOf(e) = written[x] /\ e.seq = new.seq
      /\ e \in Message
  BY <1>2 DEF LogEvent, EndOf, Message
<1> HIDE DEF old, e
<1>6. w \in Seq(Message)
  BY <1>3
<1>7. Stream' = Append(w, e)
  <2>1. CASE Full(new)
    <3>1. Flushed(batch') = <<>>
      BY <1>1, <2>1 DEF Flushed, Emptied
    <3>2. wire' = wire \o Append(old, e)
      BY <1>1, <2>1
    <3>3. wire \o Append(old, e) = Append(w, e) /\ wire \o Append(old, e) \in Seq(Message)
      BY <1>3, <1>5
    <3>4. wire' \o <<>> = wire'
      BY <3>2, <3>3
    <3> QED BY <3>1, <3>2, <3>3, <3>4 DEF Stream
  <2>2. CASE ~Full(new)
    <3>1. Flushed(batch') = <<e>>
      BY <1>1, <1>2, <2>2 DEF Flushed, e
    <3>2. wire' = w
      BY <1>1, <2>2
    <3>3. w \o <<e>> = Append(w, e)
      BY <1>5, <1>6
    <3> HIDE DEF w
    <3> QED BY <3>1, <3>2, <3>3 DEF Stream
  <2> QED BY <2>1, <2>2
<1>8. \/ Stream = w /\ e.seq = written[x] - 1
      \/ \E f \in LogEvents : /\ Stream = Append(w, f) /\ f.job = x /\ f.seq = e.seq
                            /\ EndOf(f) = written[x] - 1
  <2>1. CASE batch.lines = <<>>
    BY <1>4, <1>5, <2>1 DEF Started, Flushed, Stream, old
  <2>2. CASE batch.lines # <<>> /\ batch.job # x
    BY <1>4, <1>5, <2>2 DEF Started, Stream, old
  <2>3. CASE batch.lines # <<>> /\ batch.job = x
    <3> DEFINE f == LogEvent(batch)
    <3>1. Flushed(batch) = <<f>> /\ f \in LogEvents
      BY <2>3, FlushedIsSound DEF Flushed, On
    <3>2. f.job = x /\ f.seq = e.seq
      BY <1>4, <1>5, <2>3 DEF Started, LogEvent
    <3>3. EndOf(f) = written[x] - 1
      BY <1>1, <2>3 DEF Inv, BatchIsOfLast, Given, EndOf, LogEvent
    <3>4. old = <<>> /\ w = wire
      <4>1. old = <<>>
        BY <2>3 DEF old
      <4> QED BY <4>1, <1>3
    <3> HIDE DEF f
    <3>5. Stream = Append(w, f)
      BY <1>3, <3>1, <3>4 DEF Stream, Message
    <3> QED BY <3>1, <3>2, <3>3, <3>5
  <2> QED BY <2>1, <2>2, <2>3
<1> HIDE DEF w
<1> QED BY <1>2, <1>5, <1>6, <1>7, <1>8

\* What is seen is the first of the stream.
LEMMA FirstOfStream ==
  ASSUME Inv, See
  PROVE  LET e == Head(wire)
         IN  /\ e = Stream[1] /\ 1 \in 1..Len(Stream) /\ e \in Message /\ e = wire[1]
             /\ Len(wire) > 0
             /\ Len(Stream') = Len(Stream) - 1
             /\ \A k \in 1..Len(Stream') : k + 1 \in 1..Len(Stream) /\ Stream'[k] = Stream[k + 1]
             /\ UNCHANGED <<agentVars, linkVars, served, scenario>>
<1> DEFINE F == Flushed(batch)
<1>1. /\ wire \in Seq(Message) /\ wire # <<>> /\ F \in Seq(Message) /\ wire' = Tail(wire)
      /\ UNCHANGED <<agentVars, linkVars, served, scenario>>
  BY FlushedIsSound DEF Inv, WireInv, See
<1>2. Flushed(batch') = F
  BY <1>1 DEF agentVars
<1> HIDE DEF F
<1>3. Stream = wire \o F /\ Stream' = Tail(wire) \o F
  BY <1>1, <1>2 DEF Stream, F
<1>4. /\ Len(wire) \in Nat /\ Len(wire) > 0 /\ Len(F) \in Nat /\ Tail(wire) \in Seq(Message)
      /\ Len(Tail(wire)) = Len(wire) - 1
      /\ \A k \in 1..(Len(wire) - 1) : Tail(wire)[k] = wire[k + 1]
  BY <1>1, OnTail
<1>5. Len(Stream) = Len(wire) + Len(F) /\ Len(Stream') = Len(wire) - 1 + Len(F)
  BY <1>1, <1>3, <1>4, ConcatProperties
<1>6. \A k \in 1..Len(Stream) : Stream[k] = IF k <= Len(wire) THEN wire[k] ELSE F[k - Len(wire)]
  BY <1>1, <1>3, <1>4, <1>5, ConcatProperties
<1>7. \A k \in 1..Len(Stream') :
        Stream'[k] = IF k <= Len(wire) - 1 THEN Tail(wire)[k] ELSE F[k - (Len(wire) - 1)]
  BY <1>1, <1>3, <1>4, <1>5, ConcatProperties
<1>8. ASSUME NEW k \in 1..Len(Stream')
      PROVE  k + 1 \in 1..Len(Stream) /\ Stream'[k] = Stream[k + 1]
  <2>1. k + 1 \in 1..Len(Stream) /\ k \in Nat /\ k >= 1
    BY <1>4, <1>5
  <2>2. CASE k <= Len(wire) - 1
    BY <2>1, <2>2, <1>4, <1>6, <1>7
  <2>3. CASE ~(k <= Len(wire) - 1)
    <3>1. k - (Len(wire) - 1) = (k + 1) - Len(wire) /\ ~(k + 1 <= Len(wire))
      BY <2>1, <2>3, <1>4
    <3> QED BY <2>1, <2>3, <3>1, <1>6, <1>7
  <2> QED BY <2>1, <2>2, <2>3
<1>9. Head(wire) = wire[1] /\ wire[1] \in Message
  BY <1>1, <1>4
<1>10. 1 \in 1..Len(Stream) /\ Stream[1] = wire[1]
  BY <1>4, <1>5, <1>6
<1>11. Len(Stream') = Len(Stream) - 1
  BY <1>4, <1>5
<1> QED BY <1>1, <1>4, <1>8, <1>9, <1>10, <1>11

LEMMA SeenInOrder ==
  ASSUME Inv, Connected, Ordered, See
  PROVE  Ordered' /\ asked' = NoAsk
<1> USE DEF Ordered
<1> DEFINE e == Head(wire)
<1>1. /\ e = Stream[1] /\ 1 \in 1..Len(Stream) /\ e \in Message /\ e \notin Answer
      /\ Len(Stream') = Len(Stream) - 1
      /\ \A k \in 1..Len(Stream') : k + 1 \in 1..Len(Stream) /\ Stream'[k] = Stream[k + 1]
      /\ UNCHANGED <<agentVars, linkVars, served, scenario>>
  BY FirstOfStream DEF Connected
<1>2. \/ e.kind = "log" /\ SeesLog(e)
      \/ e.kind = "answer" /\ SeesAnswer(e)
      \/ (SeesJob(e) /\ e.kind = "job") \/ (SeesState(e) /\ e.kind = "state")
  BY Zenon DEF See
<1> HIDE DEF e
<1>3. UNCHANGED <<worker, written>> /\ (\A j \in Jobs : Given(j)' = Given(j)) /\ asked = NoAsk
  BY <1>1 DEF agentVars, Given, Connected
<1>4. \A j \in Jobs : expected[j] \in Nat /\ Given(j) \in Int
  BY DEF Inv, TypeOK, Given
<1>5. Len(Stream) \in Nat /\ Len(Stream') \in Nat
  BY <1>1, StreamType
<1>6. InTurn'
  <2> SUFFICES ASSUME NEW k \in 1..Len(Stream'), NEW m \in 1..Len(Stream'), NEW j \in Jobs,
                      k < m, OfJob(Stream'[k], j), OfJob(Stream'[m], j)
               PROVE  EndOf(Stream'[k]) <= Stream'[m].seq
    BY DEF InTurn
  <2>1. k + 1 \in 1..Len(Stream) /\ m + 1 \in 1..Len(Stream) /\ k + 1 < m + 1
    BY <1>1, <1>5
  <2> QED BY <2>1, <1>1 DEF InTurn
<1>7. \A k \in 1..Len(Stream') : \A j \in Jobs :
        Ends(Stream'[k], j) =>
          /\ worker'[j] \in {"told", "done"}
          /\ \A m \in (k + 1)..Len(Stream') : ~OfJob(Stream'[m], j)
  <2> SUFFICES ASSUME NEW k \in 1..Len(Stream'), NEW j \in Jobs,
                      Ends(Stream'[k], j), NEW m \in (k + 1)..Len(Stream')
               PROVE  worker'[j] \in {"told", "done"} /\ ~OfJob(Stream'[m], j)
    BY <1>1, <1>3, <1>5 DEF EndComesLast
  <2>1. /\ k + 1 \in 1..Len(Stream) /\ m \in 1..Len(Stream') /\ m + 1 \in ((k + 1) + 1)..Len(Stream)
    BY <1>1, <1>5
  <2> QED BY <2>1, <1>1, <1>3 DEF EndComesLast
<1>8. ASSUME NEW j \in Jobs, \A k \in 1..Len(Stream) : ~OfJob(Stream[k], j)
      PROVE  \A k \in 1..Len(Stream') : ~OfJob(Stream'[k], j)
  BY <1>1, <1>8
<1>9. CASE e.kind = "log" /\ SeesLog(e)
  <2> DEFINE j == e.job
  <2>1. e \in LogEvents /\ LogIsSound(e)
    <3>1. Learns(e)
      BY <1>1 DEF Learns, See, e
    <3>2. Sound(e)
      BY <3>1, FirstIsSound
    <3> QED BY <1>1, <1>9, <3>2, Kinds DEF Sound
  <2>2. /\ j \in Jobs /\ OfJob(e, j) /\ e.seq \in Nat /\ EndOf(e) \in Nat /\ e.seq < EndOf(e)
    BY <2>1 DEF LogEvents, LogIsSound, EndOf, OfJob
  <2>3. expected[j] <= e.seq /\ EndOf(e) <= Given(j)
    BY <1>1, <2>2 DEF Awaited
  <2>4. ASSUME NEW k \in 1..Len(Stream), k # 1, OfJob(Stream[k], j)
        PROVE  EndOf(e) <= Stream[k].seq
    BY <1>1, <1>5, <2>2, <2>4 DEF InTurn
  <2>5. e.seq = expected[j]
    <3> SUFFICES ASSUME expected[j] < e.seq PROVE FALSE
      BY <1>4, <2>2, <2>3
    <3>1. expected[j] \in expected[j]..(Given(j) - 1)
      BY <1>4, <2>2, <2>3
    <3>2. PICK k \in 1..Len(Stream) : /\ OfJob(Stream[k], j) /\ Stream[k].seq <= expected[j]
                                       /\ expected[j] < EndOf(Stream[k])
      BY <2>2, <3>1 DEF NoneMissing
    <3>3. k # 1
      BY <3>2, <1>1, <1>4, <2>2
    <3>4. EndOf(e) <= Stream[k].seq /\ Stream[k].seq \in Nat
      BY <2>4, <3>2, <3>3 DEF OfJob, LogEvents
    <3> QED BY <3>2, <3>4, <1>4, <2>2
  <2>6. /\ expected' = [expected EXCEPT ![j] = EndOf(e)] /\ UNCHANGED <<asked, ended>>
    BY <1>9, <2>5 DEF SeesLog, EndOf
  <2> HIDE DEF j
  <2>7. expected'[j] = EndOf(e) /\ \A x \in Jobs \ {j} : expected'[x] = expected[x]
    BY <2>2, <2>6 DEF Inv, TypeOK
  <2>8. Awaited'
    <3>1. \A x \in Jobs : expected'[x] <= Given(x)'
      BY <1>3, <2>3, <2>7 DEF Awaited
    <3>2. ASSUME NEW k \in 1..Len(Stream'), NEW x \in Jobs, OfJob(Stream'[k], x)
          PROVE  expected'[x] <= Stream'[k].seq /\ EndOf(Stream'[k]) <= Given(x)'
      <4>1. /\ k + 1 \in 1..Len(Stream) /\ k + 1 # 1 /\ Stream'[k] = Stream[k + 1]
            /\ OfJob(Stream[k + 1], x)
        BY <1>1, <1>5, <3>2
      <4>2. expected[x] <= Stream[k + 1].seq /\ EndOf(Stream[k + 1]) <= Given(x)
        BY <4>1 DEF Awaited
      <4>3. x = j => EndOf(e) <= Stream[k + 1].seq
        BY <4>1, <2>4
      <4> QED BY <4>1, <4>2, <4>3, <1>3, <2>7
    <3> QED BY <3>1, <3>2 DEF Awaited
  <2>9. NoneMissing'
    <3> SUFFICES ASSUME NEW x \in Jobs, NEW i \in expected'[x]..(Given(x) - 1)
                 PROVE  \E k \in 1..Len(Stream') :
                          /\ OfJob(Stream'[k], x) /\ Stream'[k].seq <= i
                          /\ i < EndOf(Stream'[k])
      BY <1>3 DEF NoneMissing
    <3>1. i \in expected[x]..(Given(x) - 1) /\ (x = j => i >= EndOf(e))
      BY <1>4, <2>2, <2>3, <2>7
    <3>2. PICK k \in 1..Len(Stream) :
            OfJob(Stream[k], x) /\ Stream[k].seq <= i /\ i < EndOf(Stream[k])
      BY <3>1 DEF NoneMissing
    <3>3. k # 1
      BY <3>1, <3>2, <1>1, <1>4, <2>2 DEF OfJob
    <3>4. k - 1 \in 1..Len(Stream') /\ Stream'[k - 1] = Stream[k]
      <4>1. k - 1 \in 1..Len(Stream') /\ (k - 1) + 1 = k
        BY <3>3, <1>1, <1>5
      <4> QED BY <4>1, <1>1
    <3> QED BY <3>2, <3>4
  <2>10. EndComesLast'
    <3>1. ended \subseteq Jobs
      BY DEF Inv, TypeOK
    <3> QED BY <1>3, <1>7, <1>8, <2>6, <3>1 DEF EndComesLast
  <2> QED BY <1>3, <1>6, <2>6, <2>8, <2>9, <2>10
<1>10. CASE (SeesJob(e) /\ e.kind = "job") \/ (SeesState(e) /\ e.kind = "state")
  <2>1. /\ UNCHANGED <<expected, asked>>
        /\ \/ ended' = ended
           \/ e.is = "ended" /\ ended' = ended \cup {e.job}
    BY <1>10 DEF SeesJob, SeesState
  <2>2. e \notin LogEvents
    BY <1>1, <1>10, Kinds
  <2>3. \A k \in 1..Len(Stream) : \A j \in Jobs :
          OfJob(Stream[k], j) => k - 1 \in 1..Len(Stream') /\ Stream'[k - 1] = Stream[k]
    <3> SUFFICES ASSUME NEW k \in 1..Len(Stream), k # 1
                 PROVE  k - 1 \in 1..Len(Stream') /\ Stream'[k - 1] = Stream[k]
      BY <1>1, <2>2 DEF OfJob
    <3>1. k - 1 \in 1..Len(Stream') /\ (k - 1) + 1 = k
      BY <1>1, <1>5
    <3> QED BY <3>1, <1>1
  <2>4. Awaited'
    BY <1>1, <1>3, <2>1 DEF Awaited
  <2>5. NoneMissing'
    BY <1>3, <2>1, <2>3 DEF NoneMissing
  <2>6. ASSUME NEW j \in ended'
        PROVE  worker'[j] \in {"told", "done"} /\ \A k \in 1..Len(Stream') : ~OfJob(Stream'[k], j)
    <3>1. CASE j \in ended
      <4>1. ended \subseteq Jobs
        BY DEF Inv, TypeOK
      <4> QED BY <3>1, <4>1, <1>3, <1>8 DEF EndComesLast
    <3>2. CASE j \notin ended
      <4>1. e.kind \in {"job", "state"} /\ e.is = "ended" /\ j = e.job
        BY <1>10, <2>1, <2>6, <3>2
      <4>2. e \in Report
        BY <4>1, <1>1, Kinds
      <4>6. \/ e = [kind |-> "job", job |-> e.job, is |-> e.is]
            \/ e = [kind |-> "state", job |-> e.job, is |-> e.is]
        BY <4>1, <4>2 DEF Report, NoReport
      <4>3. j \in Jobs /\ Ends(e, j)
        BY <4>1, <4>2, <4>6 DEF Report, NoReport, JobEvent, Ends
      <4>4. worker[j] \in {"told", "done"} /\ \A m \in (1 + 1)..Len(Stream) : ~OfJob(Stream[m], j)
        BY <4>3, <1>1 DEF EndComesLast
      <4>5. \A k \in 1..Len(Stream) : ~OfJob(Stream[k], j)
        BY <4>4, <1>1, <1>5, <2>2 DEF OfJob
      <4> QED BY <4>3, <4>4, <4>5, <1>3, <1>8
    <3> QED BY <3>1, <3>2
  <2>7. EndComesLast'
    BY <1>7, <2>6 DEF EndComesLast
  <2> QED BY <1>3, <1>6, <2>1, <2>4, <2>5, <2>7
<1> QED BY <1>1, <1>2, <1>9, <1>10, Kinds

LEMMA NoAnswers ==
  ASSUME Inv, Connected, NEW s \in Seq(Message), Emit(s), \A e \in On(s) : e \notin Answer
  PROVE  \A k \in 1..Len(wire') : wire'[k] \notin Answer
<1>1. On(wire') \subseteq On(wire) \cup On(s)
  BY OnEmit DEF Inv, WireInv
<1>2. \A e \in On(wire) : e \notin Answer
  BY DEF Connected, On
<1> QED BY <1>1, <1>2 DEF On

LEMMA NoneAreAnswers ==
  /\ \A e \in LogEvents : e \notin Answer
  /\ \A e \in Report : e \notin Answer /\ e \notin LogEvents
  BY DEF LogEvents, Report, Answer, NoReport

LEMMA EventTypes ==
  \A j \in Jobs : \A is \in {"running", "ended"} :
    /\ JobEvent(j, is) \in Report
    /\ \A x \in Jobs : is = "running" => ~Ends(JobEvent(j, is), x)
    /\ \A x \in Jobs : Ends(JobEvent(j, is), x) => x = j
<1>1. \A j, x \in Jobs : \A is \in {"running", "ended"} :
        /\ JobEvent(j, is).job = j /\ JobEvent(j, is).is = is
        /\ \A e : Ends(e, x) => e.job = x /\ e.is = "ended"
  BY DEF JobEvent, Ends
<1>2. \A j \in Jobs : \A is \in {"running", "ended"} : JobEvent(j, is) \in Report
  BY DEF JobEvent, Report
<1> QED BY <1>1, <1>2

\* What says that a job runs, says of none that it is over.
LEMMA NoEnds ==
  \A j \in Jobs : /\ ~Ends(NoReport, j)
                  /\ \A x : ~Ends([kind |-> "asks", job |-> x], j)
                  /\ \A x : x \notin over => ~Ends(JobEvent(x, Live(x)), j)
                  /\ current \notin over => ~Ends(Status, j)
<1>1. \A e, j : Ends(e, j) => e.kind \in {"job", "state"} /\ e.is = "ended"
  BY DEF Ends, JobEvent
<1>2. /\ NoReport.kind = "none" /\ \A x : [kind |-> "asks", job |-> x].kind = "asks"
      /\ \A x : x \notin over => JobEvent(x, Live(x)).is = "running"
      /\ current \notin over => Status.is = "running"
  BY DEF NoReport, JobEvent, Status, Live
<1> QED BY <1>1, <1>2

\* What was sent, and what comes after it.
LEMMA TellsInOrder ==
  ASSUME Inv, Connected, Ordered, NEW j \in Jobs, NEW is \in {"running", "ended"}, Tells(j, is),
         UNCHANGED <<written, expected, ended>>,
         is = "ended" => worker'[j] \in {"told", "done"},
         \A x \in Jobs : Given(x)' = Given(x),
         \A x \in Jobs : worker[x] \in {"told", "done"} => worker'[x] \in {"told", "done"}
  PROVE  Ordered' /\ \A k \in 1..Len(wire') : wire'[k] \notin Answer
<1> DEFINE e == JobEvent(j, is)
<1>1. e \in Report /\ e \in Message /\ e \notin LogEvents /\ e \notin Answer
  BY EventTypes, NoneAreAnswers DEF Message
<1>2. \A x \in Jobs : Ends(e, x) => worker'[x] \in {"told", "done"}
  BY EventTypes
<1>3. Stream' = Append(Stream, e)
  BY TellsLast DEF Connected
<1>4. /\ Append(Flushed(batch), e) = Flushed(batch) \o <<e>>
      /\ Flushed(batch) \in Seq(Message) /\ <<e>> \in Seq(Message) /\ On(<<e>>) = {e}
  BY <1>1, FlushedIsSound DEF On
<1>5. Emit(Append(Flushed(batch), e))
  BY DEF Tells
<1> HIDE DEF e
<1>6. Ordered'
  <2> DEFINE n == Len(Stream)
  <2>1. /\ n \in 0..n /\ Len(Stream') = n + 1 /\ Stream'[n + 1] = e
        /\ \A k \in 1..n : Stream'[k] = Stream[k]
        /\ \A k \in (n + 1)..n : Stream'[k + 1] = Stream[k]
    BY <1>1, <1>3, StreamType
  <2> HIDE DEF n
  <2> QED BY <1>1, <1>2, <2>1, OneMore DEF n
<1>7. /\ Append(Flushed(batch), e) \in Seq(Message)
      /\ On(Append(Flushed(batch), e)) = On(Flushed(batch)) \cup {e}
  <2> DEFINE y == <<e>>
  <2> HIDE DEF y
  <2>1. /\ Flushed(batch) \o y \in Seq(Message)
        /\ On(Flushed(batch) \o y) = On(Flushed(batch)) \cup On(y)
    BY <1>4, OnAppend DEF y
  <2> QED BY <1>4, <2>1, Zenon DEF y
<1>8. \A f \in On(Append(Flushed(batch), e)) : f \notin Answer
  BY <1>1, <1>7, FlushedIsSound, NoneAreAnswers
<1>9. \A k \in 1..Len(wire') : wire'[k] \notin Answer
  BY <1>5, <1>7, <1>8, NoAnswers
<1> QED BY <1>6, <1>9

LEMMA AddAnswersNothing ==
  ASSUME Inv, Connected, NEW j \in Jobs, AddLine(j)
  PROVE  \A k \in 1..Len(wire') : wire'[k] \notin Answer
  BY AddSends, NoneAreAnswers, NoAnswers

\* A state event overtakes what is in the batch.
LEMMA SentBefore ==
  ASSUME Inv, up, NEW e \in Message, Emit(<<e>>), Flushed(batch') = Flushed(batch)
  PROVE  \E n \in 0..Len(Stream) :
           /\ Len(Stream') = Len(Stream) + 1 /\ Stream'[n + 1] = e
           /\ \A k \in 1..n : Stream'[k] = Stream[k]
           /\ \A k \in (n + 1)..Len(Stream) : Stream'[k + 1] = Stream[k]
<1> DEFINE F == Flushed(batch)
           n == Len(wire)
<1>1. /\ F \in Seq(Message) /\ wire \in Seq(Message) /\ wire' = wire \o <<e>>
      /\ <<e>> \in Seq(Message) /\ Len(<<e>>) = 1
  BY FlushedIsSound DEF Inv, WireInv, Emit
<1>2. Flushed(batch') = F
  OBVIOUS
<1> HIDE DEF F
<1>3. Stream = wire \o F /\ Stream' = wire' \o F
  BY <1>2 DEF Stream, F
<1>4. /\ n \in Nat /\ Len(F) \in Nat /\ wire' \in Seq(Message) /\ Len(wire') = n + 1
      /\ wire'[n + 1] = e /\ \A k \in 1..n : wire'[k] = wire[k]
  BY <1>1
<1>5. Len(Stream) = n + Len(F) /\ Len(Stream') = n + 1 + Len(F)
  BY <1>1, <1>3, <1>4, ConcatProperties
<1>6. \A k \in 1..Len(Stream) : Stream[k] = IF k <= n THEN wire[k] ELSE F[k - n]
  BY <1>1, <1>3, <1>4, <1>5, ConcatProperties
<1>7. \A k \in 1..Len(Stream') : Stream'[k] = IF k <= n + 1 THEN wire'[k] ELSE F[k - (n + 1)]
  BY <1>1, <1>3, <1>4, <1>5, ConcatProperties
<1> HIDE DEF n
<1>8. \A k \in 1..n : Stream'[k] = Stream[k]
  <2> SUFFICES ASSUME NEW k \in 1..n PROVE Stream'[k] = Stream[k]
    OBVIOUS
  <2>1. k \in 1..Len(Stream) /\ k \in 1..Len(Stream') /\ k <= n /\ k <= n + 1
    BY <1>4, <1>5
  <2> QED BY <2>1, <1>4, <1>6, <1>7
<1>9. \A k \in (n + 1)..Len(Stream) : Stream'[k + 1] = Stream[k]
  <2> SUFFICES ASSUME NEW k \in (n + 1)..Len(Stream) PROVE Stream'[k + 1] = Stream[k]
    OBVIOUS
  <2>1. /\ k \in 1..Len(Stream) /\ k + 1 \in 1..Len(Stream') /\ ~(k <= n) /\ ~(k + 1 <= n + 1)
        /\ k - n = (k + 1) - (n + 1)
    BY <1>4, <1>5
  <2> QED BY <2>1, <1>6, <1>7
<1>10. Stream'[n + 1] = e
  BY <1>4, <1>5, <1>7
<1>11. n \in 0..Len(Stream) /\ Len(Stream') = Len(Stream) + 1
  BY <1>4, <1>5
<1> QED BY <1>8, <1>9, <1>10, <1>11

LEMMA ScenarioStays ==
  ASSUME [Next]_vars
  PROVE  UNCHANGED scenario
  BY DEF Next, AgentStep, WorkerStep, TellStart, AppendLine, AddLine, TellProgress, Finish,
         EndJob, TellEnd, WorkerReads, SendReport, Tick, Reconnect, JobGet, SendAnswer, Submit,
         Cancel, CancellerReads, ReaderReads, Drop, See, vars

LEMMA OrderNext ==
  ASSUME Inv, OrderInv, [Next]_vars
  PROVE  OrderInv'
<1>1. UNCHANGED scenario
  BY ScenarioStays
<1> SUFFICES ASSUME scenario.drops = 0, ~May("told_early"), Connected, Ordered
             PROVE  Connected' /\ Ordered'
  BY <1>1 DEF OrderInv, May
<1> DEFINE ToldStay ==
             \A j \in Jobs : worker[j] \in {"told", "done"} => worker'[j] \in {"told", "done"}
           GivenStays == \A j \in Jobs : Given(j)' = Given(j)
<1>2. /\ up /\ asked = NoAsk /\ served = NoReport
      /\ \A k \in 1..Len(wire) : wire[k] \notin Answer
      /\ NobodyEnds /\ CancellerIsInTime /\ report[Service] = NoReport
      /\ report \in [Reporters -> Report] /\ Jobs \subseteq Reporters
      /\ Service \in Reporters \ Jobs /\ Canceller \in Reporters \ Jobs
      /\ Reader \in Reporters \ Jobs /\ Service # Canceller /\ Reader # Canceller
      /\ Reader # Service
      /\ worker \in [Jobs -> {"none", "new", "works", "adds", "ending", "told", "done"}]
      /\ written \in [Jobs -> 0..Lines]
  BY JobLogAssumption DEF Connected, Inv, TypeOK, Reporters
<1>3. ToldEarly => \A j \in Jobs : ~Ends(Status, j)
  BY NoEnds DEF ToldEarly
<1>4. ASSUME UNCHANGED <<up, asked, served, wire, report, over>> PROVE Connected'
  BY <1>2, <1>4 DEF Connected, NobodyEnds, CancellerIsInTime
<1>14. ASSUME UNCHANGED <<up, asked, served, report, over>>,
              \A k \in 1..Len(wire') : wire'[k] \notin Answer
       PROVE  Connected'
  BY <1>2, <1>14 DEF Connected, NobodyEnds, CancellerIsInTime
<1>5. ASSUME UNCHANGED <<wire, batch, expected, ended>>, GivenStays, ToldStay PROVE Ordered'
  BY <1>5, SameStream DEF Stream
<1>6. ASSUME NEW j \in Jobs, WorkerStep(j)
      PROVE  Connected' /\ Ordered'
  <2> USE DEF linkVars, panelVars, jobVars
  <2>1. CASE TellStart(j) \/ TellEnd(j)
    <3>1. PICK is \in {"running", "ended"} :
            /\ Tells(j, is) /\ (is = "ended" => worker'[j] = "told")
            /\ worker[j] \in {"new", "ending"}
            /\ \/ worker' = [worker EXCEPT ![j] = "works"] /\ worker[j] = "new"
               \/ worker' = [worker EXCEPT ![j] = "told"]
      BY <1>2, <2>1 DEF TellStart, TellEnd
    <3>2. UNCHANGED <<current, over, written, linkVars, panelVars, served>>
      BY <2>1 DEF TellStart, TellEnd
    <3>3. GivenStays /\ ToldStay
      BY <1>2, <3>1, <3>2 DEF Given
    <3>4. Ordered' /\ \A k \in 1..Len(wire') : wire'[k] \notin Answer
      BY <3>1, <3>2, <3>3, TellsInOrder
    <3> QED BY <1>14, <3>2, <3>4
  <2>2. CASE TellProgress(j)
    <3>1. Tells(j, "running") /\ UNCHANGED <<worker, over, written, linkVars, panelVars, served>>
      BY <2>2 DEF TellProgress
    <3>2. Ordered' /\ \A k \in 1..Len(wire') : wire'[k] \notin Answer
      BY <3>1, TellsInOrder DEF Given
    <3> QED BY <1>14, <3>1, <3>2
  <2>3. CASE AppendLine(j)
    <3>1. /\ worker[j] = "works" /\ written' = [written EXCEPT ![j] = @ + 1]
          /\ worker' = [worker EXCEPT ![j] = "adds"]
          /\ UNCHANGED <<over, batch, linkVars, wire, panelVars, served>>
      BY <2>3 DEF AppendLine
    <3>2. /\ written[j] \in Nat /\ written'[j] = written[j] + 1 /\ worker'[j] = "adds"
          /\ \A x \in Jobs \ {j} : written'[x] = written[x] /\ worker'[x] = worker[x]
      BY <1>2, <3>1
    <3>3. GivenStays /\ ToldStay
      BY <3>1, <3>2 DEF Given
    <3> QED BY <1>4, <1>5, <3>1, <3>3
  <2>4. CASE AddLine(j)
    <3>1. /\ worker[j] = "adds" /\ worker' = [worker EXCEPT ![j] = "works"]
          /\ UNCHANGED <<over, written, linkVars, panelVars, served>>
      BY <2>4 DEF AddLine
    <3>2. Ordered'
      <4>1. PICK w \in Seq(Message), e \in LogEvents :
              /\ e.job = j /\ e.lines # <<>> /\ EndOf(e) = written[j] /\ Stream' = Append(w, e)
              /\ \/ Stream = w /\ e.seq = written[j] - 1
                 \/ \E f \in LogEvents : /\ Stream = Append(w, f) /\ f.job = j /\ f.seq = e.seq
                                       /\ EndOf(f) = written[j] - 1
        BY <1>2, <2>4, AddedToStream
      <4>2. UNCHANGED <<expected, ended, written>>
        BY <3>1
      <4> QED BY <3>1, <4>1, <4>2, LongerByOne
    <3>3. \A k \in 1..Len(wire') : wire'[k] \notin Answer
      BY <2>4, AddAnswersNothing
    <3> QED BY <1>14, <3>1, <3>2, <3>3
  <2>5. CASE EndJob(j) \/ WorkerReads(j)
    <3>1. /\ \/ worker[j] = "works" /\ worker' = [worker EXCEPT ![j] = "ending"]
             \/ worker[j] = "told" /\ worker' = [worker EXCEPT ![j] = "done"]
          /\ UNCHANGED report \/ (ToldEarly /\ report' = [report EXCEPT ![j] = Status])
          /\ UNCHANGED <<over, written, batch, up, wire, panelVars, served>>
      BY <2>5 DEF EndJob, WorkerReads, Reads
    <3>2. GivenStays /\ ToldStay
      BY <1>2, <3>1 DEF Given
    <3>3. Connected'
      <4>1. \A x \in Reporters : report'[x] = report[x] \/ (ToldEarly /\ report'[x] = Status)
        BY <1>2, <3>1
      <4>2. NobodyEnds'
        BY <1>2, <1>3, <4>1 DEF NobodyEnds
      <4>3. report'[Service] = report[Service] /\ report'[Canceller] = report[Canceller]
        BY <1>2, <3>1
      <4> QED BY <1>2, <3>1, <4>2, <4>3 DEF Connected, CancellerIsInTime
    <3> QED BY <1>5, <3>1, <3>2, <3>3
  <2>6. CASE Finish(j)
    <3>1. /\ over' = over \cup {j} /\ report[Canceller].kind = "none"
          /\ UNCHANGED <<worker, written, batch, linkVars, wire, panelVars, served>>
      BY <2>6 DEF Finish
    <3>2. Connected'
      BY <1>2, <3>1 DEF Connected, NobodyEnds, CancellerIsInTime
    <3> QED BY <1>5, <3>1, <3>2 DEF Given
  <2> QED BY <1>6, <2>1, <2>2, <2>3, <2>4, <2>5, <2>6 DEF WorkerStep
<1>7. ASSUME NEW j \in Jobs, Submit(j)
      PROVE  Connected' /\ Ordered'
  <2>1. /\ worker[j] = "none" /\ worker' = [worker EXCEPT ![j] = "new"]
        /\ UNCHANGED <<over, written, batch, linkVars, wire, panelVars, served>>
    BY <1>7 DEF Submit, jobVars
  <2>2. GivenStays /\ ToldStay
    BY <1>2, <2>1 DEF Given
  <2> QED BY <1>4, <1>5, <2>1, <2>2 DEF linkVars, panelVars
<1>8. ASSUME NEW x \in Reporters, SendReport(x)
      PROVE  Connected' /\ Ordered'
  <2> DEFINE e == report[x]
  <2>1. /\ Emit(<<e>>) /\ e.kind \in {"state", "job"}
        /\ report' = [report EXCEPT ![x] = ThenReads(x)]
        /\ UNCHANGED <<agentVars, up, drops, notices, panelVars, served, scenario>>
    BY <1>8 DEF SendReport
  <2>9. ThenReads(x) = NoReport
    <3>1. x # Service
      BY <1>2, <2>1 DEF NoReport
    <3>2. x = Canceller => report[x].job \notin over
      BY <1>2, <2>1 DEF CancellerIsInTime
    <3> QED BY <3>1, <3>2 DEF ThenReads
  <2>2. e \in Report /\ e \in Message /\ e \notin LogEvents /\ e \notin Answer
    BY <1>2, NoneAreAnswers DEF Message
  <2>3. \A j \in Jobs : ~Ends(e, j)
    BY <1>2 DEF NobodyEnds
  <2>10. \A y \in Reporters : report'[y] \in {report[y], NoReport}
    BY <1>2, <2>1, <2>9
  <2>4. NobodyEnds' /\ CancellerIsInTime' /\ report'[Service] = NoReport
    BY <1>2, <2>1, <2>10, NoEnds DEF NobodyEnds, CancellerIsInTime, NoReport, agentVars, jobVars
  <2> HIDE DEF e
  <2>5. <<e>> \in Seq(Message) /\ On(<<e>>) = {e}
    BY <2>2 DEF On
  <2>6. Connected'
    BY <1>2, <2>1, <2>2, <2>4, <2>5, NoAnswers DEF Connected, panelVars
  <2>7. UNCHANGED <<expected, ended, worker>> /\ Flushed(batch') = Flushed(batch) /\ GivenStays
    BY <2>1 DEF agentVars, panelVars, Given
  <2>8. PICK n \in 0..Len(Stream) :
          /\ Len(Stream') = Len(Stream) + 1 /\ Stream'[n + 1] = e
          /\ \A k \in 1..n : Stream'[k] = Stream[k]
          /\ \A k \in (n + 1)..Len(Stream) : Stream'[k + 1] = Stream[k]
    BY <1>2, <2>1, <2>2, <2>7, SentBefore
  <2> QED BY <2>2, <2>3, <2>6, <2>7, <2>8, OneMore
<1>9. CASE Tick
  <2>1. /\ Emit(Flushed(batch)) /\ batch' = Emptied(batch)
        /\ UNCHANGED <<current, worker, over, written, linkVars, panelVars, served, scenario>>
    BY <1>9 DEF Tick, jobVars
  <2>2. wire' = Stream /\ Stream \in Seq(Message) /\ Flushed(batch') = <<>>
    BY <1>2, <2>1, StreamType DEF Emit, Stream, Flushed, Emptied
  <2>3. Stream' = Stream
    <3>1. wire' \o <<>> = wire'
      BY <2>2
    <3> QED BY <2>2, <3>1 DEF Stream
  <2>4. Ordered'
    BY <2>1, <2>3, SameStream DEF panelVars, Given
  <2>5. \A k \in 1..Len(wire') : wire'[k] \notin Answer
    BY <2>1, FlushedIsSound, NoneAreAnswers, NoAnswers
  <2> QED BY <1>14, <2>1, <2>4, <2>5 DEF linkVars, panelVars
<1>10. CASE See
  <2>1. Ordered' /\ asked' = NoAsk
    BY <1>10, SeenInOrder
  <2>2. /\ wire' = Tail(wire) /\ wire \in Seq(Message) /\ wire # <<>>
        /\ UNCHANGED <<agentVars, linkVars, served, scenario>>
    BY <1>10 DEF See, Inv, WireInv
  <2>3. \A k \in 1..Len(wire') : wire'[k] = wire[k + 1] /\ k + 1 \in 1..Len(wire)
    BY <2>2, OnTail
  <2>4. UNCHANGED <<up, asked, served, report, over>>
    BY <1>2, <2>1, <2>2 DEF linkVars, agentVars, jobVars
  <2>5. \A k \in 1..Len(wire') : wire'[k] \notin Answer
    BY <1>2, <2>3
  <2> QED BY <1>14, <2>1, <2>4, <2>5
<1>11. CASE Reconnect \/ JobGet \/ SendAnswer \/ Drop
  BY <1>2, <1>11 DEF Reconnect, JobGet, SendAnswer, Drop, Inv, TypeOK
<1>12. CASE ReaderReads
  <2>1. /\ report' = [report EXCEPT ![Reader] = Status] /\ ToldEarly
        /\ UNCHANGED <<agentVars, up, drops, wire, panelVars, served, scenario>>
    BY <1>12 DEF ReaderReads, Reads
  <2>2. /\ \A x \in Reporters : report'[x] \in {report[x], Status}
        /\ report'[Service] = report[Service] /\ report'[Canceller] = report[Canceller]
    BY <1>2, <2>1
  <2>3. Connected'
    BY <1>2, <1>3, <2>1, <2>2
       DEF Connected, NobodyEnds, CancellerIsInTime, panelVars, agentVars, jobVars
  <2> QED BY <1>5, <2>1, <2>3 DEF agentVars, panelVars, Given
<1>15. ASSUME NEW j \in Jobs, Cancel(j)
       PROVE  Connected' /\ Ordered'
  <2> DEFINE e == [kind |-> "asks", job |-> j]
  <2>1. /\ Emit(Flushed(batch)) /\ batch' = Emptied(batch) /\ j \notin over
        /\ report' = [report EXCEPT ![Canceller] = e]
        /\ UNCHANGED <<current, worker, over, written, up, panelVars, served>>
    BY <1>15 DEF Cancel
  <2>2. wire' = Stream /\ Stream \in Seq(Message) /\ Flushed(batch') = <<>>
    BY <1>2, <2>1, StreamType DEF Emit, Stream, Flushed, Emptied
  <2>3. Stream' = Stream
    <3>1. wire' \o <<>> = wire'
      BY <2>2
    <3> QED BY <2>2, <3>1 DEF Stream
  <2>4. Ordered'
    BY <2>1, <2>3, SameStream DEF panelVars, Given
  <2>5. \A k \in 1..Len(wire') : wire'[k] \notin Answer
    BY <2>1, FlushedIsSound, NoneAreAnswers, NoAnswers
  <2>6. /\ report'[Canceller] = e /\ \A x \in Reporters \ {Canceller} : report'[x] = report[x]
        /\ e.kind = "asks" /\ e.job = j
    BY <1>2, <2>1
  <2>7. NobodyEnds'
    BY <1>2, <2>6, NoEnds DEF NobodyEnds
  <2>8. CancellerIsInTime' /\ report'[Service] = NoReport
    BY <1>2, <2>1, <2>6 DEF CancellerIsInTime
  <2> QED BY <1>2, <2>1, <2>4, <2>5, <2>7, <2>8 DEF Connected, panelVars
<1>16. CASE CancellerReads
  <2> DEFINE j == report[Canceller].job
             e == JobEvent(j, Live(j))
  <2>1. /\ report[Canceller].kind = "asks" /\ report' = [report EXCEPT ![Canceller] = e]
        /\ UNCHANGED <<agentVars, up, wire, panelVars, served>>
    BY <1>16 DEF CancellerReads, Reads
  <2>2. /\ report'[Canceller] = e /\ \A x \in Reporters \ {Canceller} : report'[x] = report[x]
        /\ e.kind = "job" /\ e.job = j /\ j \notin over
    BY <1>2, <2>1 DEF CancellerIsInTime, JobEvent
  <2>3. NobodyEnds'
    BY <1>2, <2>2, NoEnds DEF NobodyEnds
  <2>4. CancellerIsInTime' /\ report'[Service] = NoReport
    BY <1>2, <2>1, <2>2 DEF CancellerIsInTime, agentVars, jobVars
  <2>5. Connected'
    BY <1>2, <2>1, <2>3, <2>4 DEF Connected, panelVars
  <2> QED BY <1>5, <2>1, <2>5 DEF agentVars, panelVars, Given
<1>13. CASE UNCHANGED vars
  BY <1>4, <1>5, <1>13 DEF vars, agentVars, jobVars, linkVars, panelVars, Given
<1> QED BY <1>6, <1>7, <1>8, <1>9, <1>10, <1>11, <1>12, <1>13, <1>15, <1>16 DEF Next, AgentStep

LEMMA OrderInit == Init => OrderInv
<1> SUFFICES ASSUME Init PROVE Connected /\ Ordered
  BY DEF OrderInv
<1>1. Connected
  <2>1. \A x \in Reporters : report[x] = NoReport
    BY DEF Init
  <2>2. Service \in Reporters /\ Canceller \in Reporters
    BY DEF Reporters
  <2>3. NobodyEnds /\ CancellerIsInTime
    BY <2>1, <2>2, NoEnds DEF NobodyEnds, CancellerIsInTime, NoReport
  <2> QED BY <2>1, <2>2, <2>3 DEF Init, Connected
<1>2. Stream = <<>>
  BY DEF Init, Stream, Flushed, NoBatch
<1>3. \A j \in Jobs : Given(j) = 0 /\ expected[j] = 0
  BY DEF Init, Given
<1> QED BY <1>1, <1>2, <1>3
        DEF Ordered, InTurn, Awaited, NoneMissing, EndComesLast, Init

\* For any number of jobs and lines, and any sizes of ring and batch: while no connection is
\* lost and nobody but a job's worker tells that it is over, the panel has all of its lines
\* when it hears of the end.
THEOREM LinesBeforeTheEnd == Spec => []LinesComeBeforeTheEnd
<1>1. Init => Inv /\ OrderInv
  BY InvInit, OrderInit
<1>2. Inv /\ OrderInv /\ [Next]_vars => Inv' /\ OrderInv'
  BY InvNext, OrderNext
<1>3. Inv /\ OrderInv => LinesComeBeforeTheEnd
  <2> SUFFICES ASSUME Inv, OrderInv, scenario.drops = 0, ~May("told_early"), NEW j \in ended
               PROVE  expected[j] = written[j]
    BY DEF LinesComeBeforeTheEnd, NothingAfterTheEnd
  <2>1. /\ j \in Jobs /\ worker[j] \in {"told", "done"}
        /\ \A k \in 1..Len(Stream) : ~OfJob(Stream[k], j)
    BY DEF OrderInv, Ordered, EndComesLast, Inv, TypeOK
  <2>2. Given(j) = written[j] /\ written[j] \in Nat /\ expected[j] \in Nat
    BY <2>1 DEF Given, Inv, TypeOK
  <2>3. expected[j] <= written[j]
    BY <2>1, <2>2 DEF OrderInv, Ordered, Awaited
  <2>4. ~(expected[j] < written[j])
    <3> SUFFICES ASSUME expected[j] < written[j] PROVE FALSE
      OBVIOUS
    <3>1. expected[j] \in expected[j]..(Given(j) - 1)
      BY <2>2
    <3> QED BY <2>1, <3>1 DEF OrderInv, Ordered, NoneMissing
  <2> QED BY <2>2, <2>3, <2>4
<1> QED BY <1>1, <1>2, <1>3, PTL DEF Spec

-----------------------------------------------------------------------------
(* The job that the panel shows.                                            *)

\* Who has the slot is at work, and nobody else.
SlotIsOfWorker == \A j \in Jobs : worker[j] \in {"new", "works", "adds"} <=> j = current

\* A worker reads the state when it is done.
WorkersReportLast == \A j \in Jobs : report[j].kind # "none" => worker[j] = "done"

\* A job is over before its worker frees the slot.
OverBeforeTheEnd == \A j \in Jobs : worker[j] \in {"ending", "told", "done"} => j \in over

\* What is told of the slot: who has it, and of him that he is over only when he is.
IsTrue(e) ==
  e.kind # "none" =>
    /\ e.job = current
    /\ e.kind \in {"state", "job"} => (e.is = "ended" => current \in over)

\* What somebody has read is still so, unless reports overlap.
ReportsAreTrue == ~May("reports_overlap") => \A x \in Reporters : IsTrue(report[x])

\* What the panel shows after an event.
After(v, e) ==
  CASE e.kind = "state" -> IF e.is = "running" THEN e.job ELSE None
    [] e.kind = "job" -> IF e.is = "running" THEN e.job ELSE IF v = e.job THEN None ELSE v
    [] OTHER -> v

\* f is what it shows after each event of a wire, when it shows v now ...
Trace(f, w, v) ==
  /\ f \in [0..Len(w) -> Jobs \cup {None}] /\ f[0] = v
  /\ \A k \in 1..Len(w) : f[k] = After(f[k - 1], w[k])

\* ... and r is what it shows in the end.
Leads(w, v, r) == \E f : Trace(f, w, v) /\ f[Len(w)] = r

\* What may be the last, when nobody owes the panel the state.
Due(v) ==
  \/ v = current
  \/ current # None /\ worker[current] = "new"
  \/ current = None /\ v \in Jobs /\ worker[v] = "ending"
  \/ current \in over /\ v = None

OwesNothing == ~May("reports_overlap") /\ up /\ report[Service].kind # "state"

LastIsDue ==
  \E r \in Jobs \cup {None} : Leads(wire, shows, r) /\ (OwesNothing => Due(r))

LEMMA AfterType ==
  ASSUME NEW v \in Jobs \cup {None}, NEW e \in Message
  PROVE  /\ After(v, e) \in Jobs \cup {None}
         /\ e \in LogEvents \cup Answer => After(v, e) = v
<1>1. CASE e \in LogEvents \cup Answer
  BY <1>1 DEF After, LogEvents, Answer
<1>2. CASE e \in Report
  <2>1. /\ e.kind \in {"state", "job"} => e.job \in Jobs \cup {None}
        /\ e.kind \in {"state", "job", "asks", "none"} /\ e \notin LogEvents \cup Answer
    BY <1>2 DEF Report, NoReport, LogEvents, Answer
  <2> QED BY <2>1 DEF After
<1> QED BY <1>1, <1>2 DEF Message

LEMMA AfterEvent ==
  \A v : \A j \in Jobs : /\ After(v, JobEvent(j, "running")) = j
                        /\ After(v, JobEvent(j, "ended")) = IF v = j THEN None ELSE v
  BY DEF After, JobEvent

\* After a true report the panel shows who has the slot, or, when he is over, nobody; only
\* of somebody else that it showed it learns nothing.
LEMMA AfterTruth ==
  ASSUME NEW v, NEW e \in Report, e.kind \in {"state", "job"}, IsTrue(e)
  PROVE  \/ After(v, e) = current
         \/ current \in over /\ After(v, e) = None
         \/ e.kind = "job" /\ After(v, e) = v
<1>1. /\ e.is \in {"running", "ended"} /\ e.job = current
      /\ e.is = "ended" => current \in over
  BY DEF Report, NoReport, IsTrue
<1>2. CASE e.kind = "state"
  BY <1>1, <1>2 DEF After
<1>3. CASE e.kind = "job"
  BY <1>1, <1>3 DEF After
<1> QED BY <1>2, <1>3

LEMMA LeadsType ==
  ASSUME NEW w \in Seq(Message), NEW v, NEW f, Trace(f, w, v)
  PROVE  f[Len(w)] \in Jobs \cup {None} /\ v \in Jobs \cup {None}
<1>1. Len(w) \in 0..Len(w) /\ 0 \in 0..Len(w)
  OBVIOUS
<1> QED BY <1>1 DEF Trace

LEMMA LeadsNowhere ==
  ASSUME NEW v \in Jobs \cup {None}
  PROVE  Leads(<<>>, v, v)
<1> DEFINE f == [k \in 0..0 |-> v]
<1>1. Trace(f, <<>>, v) /\ f[Len(<<>>)] = v
  BY DEF Trace
<1> QED BY <1>1 DEF Leads

LEMMA LeadsFurther ==
  ASSUME NEW w \in Seq(Message), NEW v, NEW r, Leads(w, v, r), NEW e \in Message
  PROVE  Leads(Append(w, e), v, After(r, e))
<1>1. PICK f : Trace(f, w, v) /\ f[Len(w)] = r
  BY DEF Leads
<1> DEFINE n == Len(w)
           a == After(r, e)
           W == Append(w, e)
           g == [k \in 0..(n + 1) |-> IF k <= n THEN f[k] ELSE a]
<1>2. n \in Nat /\ Len(W) = n + 1 /\ W[n + 1] = e /\ \A k \in 1..n : W[k] = w[k]
  OBVIOUS
<1>3. r \in Jobs \cup {None}
  BY <1>1, LeadsType
<1>4. a \in Jobs \cup {None}
  BY <1>3, AfterType
<1>5. /\ \A k \in 0..n : f[k] \in Jobs \cup {None}
      /\ f[0] = v /\ f[n] = r /\ \A k \in 1..n : f[k] = After(f[k - 1], w[k])
  BY <1>1 DEF Trace
<1> HIDE DEF a, W, n
<1>6. /\ g \in [0..(n + 1) -> Jobs \cup {None}] /\ \A k \in 0..n : g[k] = f[k]
      /\ g[n + 1] = a
  BY <1>2, <1>4, <1>5
<1> HIDE DEF g
<1>7. \A k \in 1..(n + 1) : g[k] = After(g[k - 1], W[k])
  <2> SUFFICES ASSUME NEW k \in 1..(n + 1) PROVE g[k] = After(g[k - 1], W[k])
    OBVIOUS
  <2>1. CASE k \in 1..n
    <3>1. g[k] = f[k] /\ g[k - 1] = f[k - 1] /\ W[k] = w[k] /\ f[k] = After(f[k - 1], w[k])
      <4>1. k \in 0..n /\ k - 1 \in 0..n
        BY <2>1, <1>2
      <4> QED BY <2>1, <4>1, <1>2, <1>5, <1>6
    <3> QED BY <3>1, Zenon
  <2>2. CASE k = n + 1
    <3>1. g[k] = a /\ g[k - 1] = r /\ W[k] = e
      <4>1. k - 1 = n /\ n \in 0..n
        BY <2>2, <1>2
      <4> QED BY <2>2, <4>1, <1>2, <1>5, <1>6
    <3> QED BY <3>1, Zenon DEF a
  <2> QED BY <1>2, <2>1, <2>2
<1>8. g[0] = v
  <2>1. 0 \in 0..n
    BY <1>2
  <2> QED BY <2>1, <1>5, <1>6
<1>9. Trace(g, W, v) /\ g[Len(W)] = After(r, e)
  BY <1>2, <1>6, <1>7, <1>8 DEF Trace, a
<1> QED BY <1>9 DEF Leads, W

\* Lines and answers do not change what is shown.
LEMMA LinesLeadNowhere ==
  ASSUME NEW w \in Seq(Message), NEW v, NEW r, Leads(w, v, r),
         NEW s \in Seq(Message), \A e \in On(s) : e \in LogEvents \cup Answer
  PROVE  Leads(w \o s, v, r)
<1>1. PICK f : Trace(f, w, v) /\ f[Len(w)] = r
  BY DEF Leads
<1> DEFINE n == Len(w)
           m == Len(s)
           W == w \o s
           g == [k \in 0..(n + m) |-> IF k <= n THEN f[k] ELSE r]
<1>2. /\ n \in Nat /\ m \in Nat /\ Len(W) = n + m
      /\ \A k \in 1..(n + m) : W[k] = IF k <= n THEN w[k] ELSE s[k - n]
  BY ConcatProperties
<1>3. r \in Jobs \cup {None}
  BY <1>1, LeadsType
<1>4. /\ \A k \in 0..n : f[k] \in Jobs \cup {None}
      /\ f[0] = v /\ f[n] = r /\ \A k \in 1..n : f[k] = After(f[k - 1], w[k])
  BY <1>1 DEF Trace
<1>5. \A k \in 1..m : After(r, s[k]) = r
  BY <1>3, AfterType DEF On
<1> HIDE DEF W, n, m
<1>6. /\ g \in [0..(n + m) -> Jobs \cup {None}]
      /\ \A k \in 0..(n + m) : g[k] = IF k <= n THEN f[k] ELSE r
  <2>1. \A k \in 0..(n + m) : k <= n => k \in 0..n
    BY <1>2
  <2> QED BY <2>1, <1>3, <1>4
<1> HIDE DEF g
<1>7. \A k \in 1..(n + m) : g[k] = After(g[k - 1], W[k])
  <2> SUFFICES ASSUME NEW k \in 1..(n + m) PROVE g[k] = After(g[k - 1], W[k])
    OBVIOUS
  <2>0. k \in 0..(n + m) /\ k - 1 \in 0..(n + m)
    BY <1>2
  <2>1. CASE k <= n
    <3>1. k \in 1..n /\ k - 1 <= n
      BY <1>2, <2>1
    <3>2. g[k] = f[k] /\ g[k - 1] = f[k - 1] /\ W[k] = w[k] /\ f[k] = After(f[k - 1], w[k])
      BY <2>0, <2>1, <3>1, <1>2, <1>4, <1>6
    <3> QED BY <3>2, Zenon
  <2>2. CASE ~(k <= n)
    <3>1. k - n \in 1..m /\ (k - 1 <= n => k - 1 = n)
      BY <1>2, <2>2
    <3>2. W[k] = s[k - n] /\ After(r, s[k - n]) = r
      BY <2>2, <3>1, <1>2, <1>5
    <3>3. g[k] = r /\ g[k - 1] = r
      BY <2>0, <2>2, <3>1, <1>4, <1>6
    <3> QED BY <3>2, <3>3, Zenon
  <2> QED BY <2>1, <2>2
<1>8. g[0] = v /\ g[n + m] = r
  <2>1. 0 \in 0..(n + m) /\ 0 <= n /\ n + m \in 0..(n + m) /\ (n + m <= n => n + m = n)
    BY <1>2
  <2> QED BY <2>1, <1>4, <1>6
<1>9. Trace(g, W, v) /\ g[Len(W)] = r
  BY <1>2, <1>6, <1>7, <1>8 DEF Trace
<1> QED BY <1>9 DEF Leads, W

\* The panel takes the first step of the way.
LEMMA LeadsOn ==
  ASSUME NEW w \in Seq(Message), w # <<>>, NEW v, NEW r, Leads(w, v, r)
  PROVE  Leads(Tail(w), After(v, Head(w)), r)
<1>1. PICK f : Trace(f, w, v) /\ f[Len(w)] = r
  BY DEF Leads
<1> DEFINE n == Len(w) - 1
           W == Tail(w)
           g == [k \in 0..n |-> f[k + 1]]
<1>2. /\ n \in Nat /\ Len(w) = n + 1 /\ Len(W) = n /\ Head(w) = w[1]
      /\ \A k \in 1..n : W[k] = w[k + 1]
  BY OnTail
<1>3. /\ \A k \in 0..(n + 1) : f[k] \in Jobs \cup {None}
      /\ f[0] = v /\ f[n + 1] = r
      /\ \A k \in 1..(n + 1) : f[k] = After(f[k - 1], w[k])
  BY <1>1, <1>2 DEF Trace
<1> HIDE DEF W, n
<1>4. g \in [0..n -> Jobs \cup {None}] /\ \A k \in 0..n : g[k] = f[k + 1]
  <2>1. \A k \in 0..n : k + 1 \in 0..(n + 1)
    BY <1>2
  <2> QED BY <2>1, <1>3
<1> HIDE DEF g
<1>5. g[0] = After(v, Head(w)) /\ g[n] = r
  <2>1. 1 \in 1..(n + 1) /\ 1 - 1 = 0 /\ 0 \in 0..n /\ n \in 0..n /\ 0 + 1 = 1
    BY <1>2
  <2>2. f[1] = After(f[0], w[1])
    BY <2>1, <1>3
  <2>3. g[0] = f[1] /\ g[n] = f[n + 1]
    BY <2>1, <1>4
  <2> QED BY <2>2, <2>3, <1>2, <1>3
<1>6. \A k \in 1..n : g[k] = After(g[k - 1], W[k])
  <2> SUFFICES ASSUME NEW k \in 1..n PROVE g[k] = After(g[k - 1], W[k])
    OBVIOUS
  <2>1. k + 1 \in 1..(n + 1) /\ (k + 1) - 1 = k /\ k \in 0..n /\ k - 1 \in 0..n /\ (k - 1) + 1 = k
    BY <1>2
  <2>2. g[k] = f[k + 1] /\ g[k - 1] = f[k] /\ W[k] = w[k + 1] /\ f[k + 1] = After(f[k], w[k + 1])
    <3>1. f[k + 1] = After(f[(k + 1) - 1], w[k + 1])
      BY <2>1, <1>3
    <3>2. g[k] = f[k + 1] /\ g[k - 1] = f[(k - 1) + 1] /\ W[k] = w[k + 1]
      BY <2>1, <1>2, <1>4
    <3> QED BY <2>1, <3>1, <3>2
  <2> QED BY <2>2, Zenon
<1>7. Trace(g, W, After(v, Head(w))) /\ g[Len(W)] = r
  BY <1>2, <1>4, <1>5, <1>6 DEF Trace
<1> QED BY <1>7 DEF Leads, W

-----------------------------------------------------------------------------
(* What steps do to the way to the last.                                    *)

LEMMA EmitLines ==
  ASSUME Inv, NEW r, Leads(wire, shows, r), shows' = shows, NEW s \in Seq(Message), Emit(s),
         \A e \in On(s) : e \in LogEvents \cup Answer
  PROVE  Leads(wire', shows', r)
<1>1. wire \in Seq(Message) /\ wire' = IF up THEN wire \o s ELSE wire
  BY DEF Inv, WireInv, Emit
<1> QED BY <1>1, LinesLeadNowhere

LEMMA EmitOne ==
  ASSUME Inv, NEW r, Leads(wire, shows, r), shows' = shows, NEW e \in Message, Emit(<<e>>)
  PROVE  Leads(wire', shows', IF up THEN After(r, e) ELSE r)
<1>1. wire \in Seq(Message) /\ wire' = IF up THEN wire \o <<e>> ELSE wire
  BY DEF Inv, WireInv, Emit
<1>2. wire \o <<e>> = Append(wire, e)
  BY <1>1
<1> QED BY <1>1, <1>2, LeadsFurther

LEMMA TellsOne ==
  ASSUME Inv, NEW r, Leads(wire, shows, r), shows' = shows,
         NEW j \in Jobs, NEW is \in {"running", "ended"}, Tells(j, is)
  PROVE  Leads(wire', shows', IF up THEN After(r, JobEvent(j, is)) ELSE r)
<1> DEFINE e == JobEvent(j, is)
           F == Flushed(batch)
<1>1. e \in Message
  BY EventTypes DEF Message
<1>2. F \in Seq(Message) /\ \A f \in On(F) : f \in LogEvents \cup Answer
  BY FlushedIsSound
<1>3. wire \in Seq(Message) /\ wire' = IF up THEN wire \o Append(F, e) ELSE wire
  BY DEF Inv, WireInv, Tells, Emit
<1> HIDE DEF e, F
<1>4. wire \o F \in Seq(Message) /\ wire \o Append(F, e) = Append(wire \o F, e)
  BY <1>1, <1>2, <1>3, AppendProperties, ConcatProperties, ConcatAssociative
<1>5. Leads(wire \o F, shows, r)
  BY <1>2, <1>3, LinesLeadNowhere
<1>6. Leads(Append(wire \o F, e), shows, After(r, e))
  BY <1>1, <1>4, <1>5, LeadsFurther
<1> QED BY <1>3, <1>4, <1>6 DEF e

-----------------------------------------------------------------------------
(* The slot, and what has been read of it.                                  *)

SlotInv == SlotIsOfWorker /\ WorkersReportLast /\ OverBeforeTheEnd /\ ReportsAreTrue

\* What is read of the slot is true.
LEMMA ReadsAreTrue ==
  /\ IsTrue(NoReport) /\ IsTrue(Status)
  /\ \A j : j = current => IsTrue(JobEvent(j, Live(j))) /\ IsTrue([kind |-> "asks", job |-> j])
  BY DEF IsTrue, NoReport, Status, JobEvent, Live

\* And stays true while the slot is whose it is.
LEMMA TrueStays ==
  ASSUME NEW e, IsTrue(e), current' = current, over \subseteq over'
  PROVE  IsTrue(e)'
  BY DEF IsTrue

\* While a thread is the only one that has read anything, the slot may change.
LEMMA NobodyElseRead ==
  ASSUME Inv, WorkersReportLast, NEW j \in Jobs, Fresh(j), worker[j] # "done"
  PROVE  ~May("reports_overlap") => \A x \in Reporters : report[x] = NoReport
<1>1. report \in [Reporters -> Report] /\ j \in Reporters
  BY DEF Inv, TypeOK, Reporters
<1>2. \A e \in Report : e.kind = "none" => e = NoReport
  BY DEF Report, NoReport
<1> QED BY <1>1, <1>2 DEF Fresh, WorkersReportLast

LEMMA SlotNext ==
  ASSUME Inv, SlotInv, [Next]_vars
  PROVE  SlotInv'
<1>1. /\ worker \in [Jobs -> {"none", "new", "works", "adds", "ending", "told", "done"}]
      /\ report \in [Reporters -> Report] /\ Jobs \subseteq Reporters
      /\ Service \in Reporters \ Jobs /\ Reader \in Reporters \ Jobs
      /\ Canceller \in Reporters \ Jobs
      /\ current \in Jobs \cup {None} /\ None \notin Jobs
  <2>1. None \notin Jobs
    BY DEF Jobs, None
  <2> QED BY <2>1, JobLogAssumption DEF Inv, TypeOK, Reporters
<1>2. UNCHANGED scenario
  BY ScenarioStays
<1> USE DEF agentVars, jobVars, linkVars
<1>3. ASSUME UNCHANGED <<current, report>>, over \subseteq over' PROVE ReportsAreTrue'
  <2>1. SUFFICES ASSUME ~May("reports_overlap"), NEW x \in Reporters PROVE IsTrue(report[x])'
    BY <1>2 DEF ReportsAreTrue, May
  <2>2. IsTrue(report[x])
    BY <2>1 DEF SlotInv, ReportsAreTrue
  <2>3. \A e : IsTrue(e) => IsTrue(e)'
    BY <1>3, TrueStays
  <2> QED BY <1>3, <2>2, <2>3 DEF IsTrue
<1>4. ASSUME UNCHANGED <<current, worker, report>>, over \subseteq over' PROVE SlotInv'
  BY <1>3, <1>4 DEF SlotInv, SlotIsOfWorker, WorkersReportLast, OverBeforeTheEnd
<1>5. ASSUME NEW x \in Reporters, NEW e, UNCHANGED <<current, over>>,
             report' = [report EXCEPT ![x] = e], IsTrue(e)
      PROVE  ReportsAreTrue'
  <2>1. SUFFICES ASSUME ~May("reports_overlap"), NEW y \in Reporters PROVE IsTrue(report[y])'
    BY <1>2 DEF ReportsAreTrue, May
  <2>2. IsTrue(report[y])
    BY <2>1 DEF SlotInv, ReportsAreTrue
  <2>3. report'[y] \in {report[y], e}
    BY <1>1, <1>5
  <2> QED BY <1>5, <2>2, <2>3 DEF IsTrue
<1>6. ASSUME UNCHANGED report, ~May("reports_overlap") => \A x \in Reporters : report[x] = NoReport
      PROVE  ReportsAreTrue'
  BY <1>2, <1>6 DEF ReportsAreTrue, IsTrue, NoReport, May
<1>7. ASSUME NEW j \in Jobs, WorkerStep(j) PROVE SlotInv'
  <2>1. CASE TellStart(j) \/ AppendLine(j) \/ AddLine(j) \/ TellProgress(j)
    <3>1. /\ UNCHANGED <<current, over, report>>
          /\ \/ UNCHANGED worker
             \/ \E x \in {"works", "adds"} :
                  worker[j] \in {"new", "works", "adds"} /\ worker' = [worker EXCEPT ![j] = x]
      BY <2>1 DEF TellStart, AppendLine, AddLine, TellProgress
    <3>2. SlotIsOfWorker' /\ WorkersReportLast' /\ OverBeforeTheEnd'
      BY <1>1, <3>1 DEF SlotInv, SlotIsOfWorker, WorkersReportLast, OverBeforeTheEnd
    <3>3. ReportsAreTrue'
      BY <1>3, <3>1
    <3> QED BY <3>2, <3>3 DEF SlotInv
  <2>2. CASE TellEnd(j)
    <3>1. /\ UNCHANGED <<current, over, report>> /\ worker[j] = "ending"
          /\ worker' = [worker EXCEPT ![j] = "told"]
      BY <2>2 DEF TellEnd
    <3>2. SlotIsOfWorker' /\ WorkersReportLast' /\ OverBeforeTheEnd'
      BY <1>1, <3>1 DEF SlotInv, SlotIsOfWorker, WorkersReportLast, OverBeforeTheEnd
    <3>3. ReportsAreTrue'
      BY <1>3, <3>1
    <3> QED BY <3>2, <3>3 DEF SlotInv
  <2>3. CASE EndJob(j)
    <3>1. /\ UNCHANGED <<over, report>> /\ current' = None /\ worker[j] = "works" /\ Fresh(j)
          /\ j \in over /\ worker' = [worker EXCEPT ![j] = "ending"]
      BY <2>3 DEF EndJob
    <3>2. SlotIsOfWorker' /\ WorkersReportLast' /\ OverBeforeTheEnd'
      BY <1>1, <3>1 DEF SlotInv, SlotIsOfWorker, WorkersReportLast, OverBeforeTheEnd
    <3>3. ReportsAreTrue'
      BY <1>6, <3>1, NobodyElseRead DEF SlotInv
    <3> QED BY <3>2, <3>3 DEF SlotInv
  <2>4. CASE WorkerReads(j)
    <3>1. /\ UNCHANGED <<current, over>> /\ worker[j] = "told"
          /\ report' = [report EXCEPT ![j] = Status]
          /\ worker' = [worker EXCEPT ![j] = "done"]
      BY <2>4 DEF WorkerReads, Reads
    <3>2. SlotIsOfWorker' /\ WorkersReportLast' /\ OverBeforeTheEnd'
      BY <1>1, <3>1 DEF SlotInv, SlotIsOfWorker, WorkersReportLast, OverBeforeTheEnd
    <3>3. ReportsAreTrue'
      BY <1>1, <1>5, <3>1, ReadsAreTrue
    <3> QED BY <3>2, <3>3 DEF SlotInv
  <2>5. CASE Finish(j)
    BY <1>4, <2>5 DEF Finish
  <2> QED BY <1>7, <2>1, <2>2, <2>3, <2>4, <2>5 DEF WorkerStep
<1>8. ASSUME NEW j \in Jobs, Submit(j) PROVE SlotInv'
  <2>1. /\ UNCHANGED <<over, report>> /\ current = None /\ current' = j /\ worker[j] = "none"
        /\ Fresh(j) /\ worker' = [worker EXCEPT ![j] = "new"]
    BY <1>8 DEF Submit
  <2>2. SlotIsOfWorker' /\ WorkersReportLast' /\ OverBeforeTheEnd'
    BY <1>1, <2>1 DEF SlotInv, SlotIsOfWorker, WorkersReportLast, OverBeforeTheEnd
  <2>3. ReportsAreTrue'
    BY <1>6, <2>1, NobodyElseRead DEF SlotInv
  <2> QED BY <2>2, <2>3 DEF SlotInv
<1>9. ASSUME NEW x \in Reporters, NEW e, UNCHANGED <<current, worker, over>>,
             report' = [report EXCEPT ![x] = e], IsTrue(e), x \in Jobs => e = NoReport
      PROVE  SlotInv'
  <2>1. SlotIsOfWorker' /\ OverBeforeTheEnd'
    BY <1>9 DEF SlotInv, SlotIsOfWorker, OverBeforeTheEnd
  <2>2. WorkersReportLast'
    BY <1>1, <1>9 DEF SlotInv, WorkersReportLast, NoReport
  <2>3. ReportsAreTrue'
    BY <1>5, <1>9
  <2> QED BY <2>1, <2>2, <2>3 DEF SlotInv
<1>10. ASSUME NEW x \in Reporters, SendReport(x) PROVE SlotInv'
  <2>1. UNCHANGED <<current, worker, over>> /\ report' = [report EXCEPT ![x] = ThenReads(x)]
    BY <1>10 DEF SendReport
  <2>2. IsTrue(ThenReads(x)) /\ (x \in Jobs => ThenReads(x) = NoReport)
    BY <1>1, ReadsAreTrue DEF ThenReads
  <2> QED BY <1>9, <2>1, <2>2
<1>11. CASE ReaderReads \/ Reconnect
  <2>1. /\ UNCHANGED <<current, worker, over>>
        /\ \E x \in {Reader, Service} : report' = [report EXCEPT ![x] = Status]
    BY <1>11 DEF ReaderReads, Reconnect, Reads
  <2> QED BY <1>1, <1>9, <2>1, ReadsAreTrue
<1>12. ASSUME NEW j \in Jobs, Cancel(j) PROVE SlotInv'
  <2>1. /\ UNCHANGED <<current, worker, over>> /\ worker[j] # "none" /\ j \notin over
        /\ report' = [report EXCEPT ![Canceller] = [kind |-> "asks", job |-> j]]
    BY <1>12 DEF Cancel
  <2>2. j = current
    <3>1. worker[j] \in {"new", "works", "adds"}
      BY <1>1, <2>1 DEF SlotInv, OverBeforeTheEnd
    <3> QED BY <3>1 DEF SlotInv, SlotIsOfWorker
  <2> QED BY <1>1, <1>9, <2>1, <2>2, ReadsAreTrue
<1>13. CASE CancellerReads
  <2> DEFINE j == report[Canceller].job
  <2>1. /\ UNCHANGED <<current, worker, over>> /\ report[Canceller].kind = "asks"
        /\ report' = [report EXCEPT ![Canceller] = JobEvent(j, Live(j))]
    BY <1>13 DEF CancellerReads, Reads
  <2>2. SlotIsOfWorker' /\ OverBeforeTheEnd'
    BY <2>1 DEF SlotInv, SlotIsOfWorker, OverBeforeTheEnd
  <2>3. WorkersReportLast'
    BY <1>1, <2>1 DEF SlotInv, WorkersReportLast
  <2>4. ReportsAreTrue'
    <3>1. CASE May("reports_overlap")
      BY <1>2, <3>1 DEF ReportsAreTrue, May
    <3>2. CASE ~May("reports_overlap")
      <4>1. j = current
        BY <1>1, <2>1, <3>2 DEF SlotInv, ReportsAreTrue, IsTrue
      <4> QED BY <1>1, <1>5, <2>1, <4>1, ReadsAreTrue
    <3> QED BY <3>1, <3>2
  <2> QED BY <2>2, <2>3, <2>4 DEF SlotInv
<1>14. CASE Tick \/ JobGet \/ SendAnswer \/ Drop \/ See \/ UNCHANGED vars
  BY <1>4, <1>14 DEF Tick, JobGet, SendAnswer, Drop, See, vars
<1> QED BY <1>7, <1>8, <1>10, <1>11, <1>12, <1>13, <1>14 DEF Next, AgentStep

-----------------------------------------------------------------------------
(* What the panel is shown last.                                            *)

LEMMA LastIsDueThen ==
  ASSUME NEW q \in Jobs \cup {None}, Leads(wire', shows', q), OwesNothing' => Due(q)'
  PROVE  LastIsDue'
  BY DEF LastIsDue

\* The panel shows after an event what the event says.
LEMMA SeesWhatItSays ==
  ASSUME Inv, See
  PROVE  shows' = After(shows, Head(wire))
<1> DEFINE e == Head(wire)
<1>1. \/ e.kind = "log" /\ SeesLog(e)
      \/ e.kind = "answer" /\ SeesAnswer(e)
      \/ e.kind = "job" /\ SeesJob(e)
      \/ e.kind = "state" /\ SeesState(e)
  BY DEF See
<1> HIDE DEF e
<1>2. CASE e.kind = "log" /\ SeesLog(e)
  BY <1>2 DEF SeesLog, After, e
<1>3. CASE e.kind = "answer" /\ SeesAnswer(e)
  BY <1>3 DEF SeesAnswer, After, panelVars, e
<1>4. CASE e.kind = "job" /\ SeesJob(e)
  BY <1>4 DEF SeesJob, After, e
<1>5. CASE e.kind = "state" /\ SeesState(e)
  BY <1>5 DEF SeesState, After, e
<1> QED BY <1>1, <1>2, <1>3, <1>4, <1>5

LEMMA LastNext ==
  ASSUME Inv, SlotInv, LastIsDue, [Next]_vars
  PROVE  LastIsDue'
<1>1. /\ worker \in [Jobs -> {"none", "new", "works", "adds", "ending", "told", "done"}]
      /\ report \in [Reporters -> Report] /\ Jobs \subseteq Reporters
      /\ Service \in Reporters \ Jobs /\ Reader \in Reporters \ Jobs /\ Reader # Service
      /\ Canceller \in Reporters \ Jobs /\ Canceller # Service
      /\ over \subseteq Jobs /\ current \in Jobs \cup {None} /\ shows \in Jobs \cup {None} /\ None \notin Jobs
  <2>1. None \notin Jobs
    BY DEF Jobs, None
  <2> QED BY <2>1, JobLogAssumption DEF Inv, TypeOK, Reporters
<1>2. \A j \in Jobs : worker[j] \in {"new", "works", "adds"} <=> j = current
  BY DEF SlotInv, SlotIsOfWorker
<1>3. UNCHANGED scenario
  BY ScenarioStays
<1>4. PICK r \in Jobs \cup {None} : Leads(wire, shows, r) /\ (OwesNothing => Due(r))
  BY DEF LastIsDue
<1> USE DEF linkVars, panelVars, agentVars, jobVars
<1>5. ASSUME Leads(wire', shows', r), UNCHANGED <<current, up>>, report'[Service] = report[Service],
             over \subseteq over',
             \A j \in Jobs : worker'[j] # worker[j] => worker[j] \notin {"new", "ending"}
      PROVE  LastIsDue'
  <2>1. Due(r) => Due(r)'
    BY <1>1, <1>5 DEF Due
  <2>2. OwesNothing' <=> OwesNothing
    BY <1>3, <1>5 DEF OwesNothing, May
  <2> QED BY <1>4, <1>5, <2>1, <2>2, LastIsDueThen
<1>6. ASSUME NEW q \in Jobs \cup {None}, Leads(wire', shows', IF up THEN q ELSE r),
             UNCHANGED up, OwesNothing' => Due(q)'
      PROVE  LastIsDue'
  <2>1. CASE up
    BY <1>6, <2>1, LastIsDueThen
  <2>2. CASE ~up
    <3>1. ~OwesNothing'
      BY <1>6, <2>2 DEF OwesNothing
    <3> QED BY <1>6, <2>2, <3>1, LastIsDueThen
  <2> QED BY <2>1, <2>2
<1>7. ASSUME NEW j \in Jobs, WorkerStep(j) PROVE LastIsDue'
  <2>1. CASE TellStart(j) \/ TellProgress(j)
    <3>1. /\ Tells(j, "running") /\ j = current
          /\ UNCHANGED <<current, up, shows>>
      BY <1>2, <2>1 DEF TellStart, TellProgress
    <3>2. Leads(wire', shows', IF up THEN j ELSE r)
      BY <1>4, <3>1, TellsOne, AfterEvent
    <3>3. Due(j)'
      BY <3>1 DEF Due
    <3> QED BY <1>6, <3>1, <3>2, <3>3
  <2>2. CASE AppendLine(j)
    <3>1. /\ worker[j] = "works" /\ worker' = [worker EXCEPT ![j] = "adds"]
          /\ UNCHANGED <<current, over, up, report, wire, shows>>
      BY <2>2 DEF AppendLine
    <3> QED BY <1>1, <1>4, <1>5, <3>1
  <2>3. CASE AddLine(j)
    <3>1. /\ worker[j] = "adds" /\ worker' = [worker EXCEPT ![j] = "works"]
          /\ UNCHANGED <<current, over, up, report, shows>>
      BY <2>3 DEF AddLine
    <3>2. Leads(wire', shows', r)
      <4>1. PICK s \in Seq(Message) :
              Emit(s) /\ \A e \in On(s) : e \in LogEvents /\ LogIsSound(e)
        BY <2>3, AddSends
      <4> QED BY <1>4, <3>1, <4>1, EmitLines
    <3> QED BY <1>1, <1>5, <3>1, <3>2
  <2>4. CASE EndJob(j)
    <3>1. /\ worker[j] = "works" /\ worker' = [worker EXCEPT ![j] = "ending"]
          /\ j = current /\ current' = None /\ UNCHANGED <<up, report, wire, shows>>
      BY <1>2, <2>4 DEF EndJob
    <3>2. Due(r) => Due(r)'
      BY <1>1, <3>1 DEF Due
    <3>3. OwesNothing' <=> OwesNothing
      BY <1>3, <3>1 DEF OwesNothing, May
    <3> QED BY <1>4, <3>1, <3>2, <3>3, LastIsDueThen
  <2>5. CASE TellEnd(j)
    <3> DEFINE q == IF r = j THEN None ELSE r
    <3>1. /\ worker[j] = "ending" /\ worker' = [worker EXCEPT ![j] = "told"]
          /\ Tells(j, "ended") /\ UNCHANGED <<current, over, up, report, shows>>
      BY <2>5 DEF TellEnd
    <3>2. q \in Jobs \cup {None} /\ Leads(wire', shows', IF up THEN q ELSE r)
      BY <1>4, <3>1, TellsOne, AfterEvent
    <3>3. OwesNothing' => Due(r)
      BY <1>3, <1>4, <3>1 DEF OwesNothing, May
    <3>4. j # current
      BY <1>2, <3>1
    <3>5. Due(r) => Due(q)'
      BY <1>1, <3>1, <3>4 DEF Due
    <3> QED BY <1>6, <3>1, <3>2, <3>3, <3>5
  <2>6. CASE WorkerReads(j)
    <3>1. /\ worker[j] = "told" /\ worker' = [worker EXCEPT ![j] = "done"]
          /\ report' = [report EXCEPT ![j] = Status]
          /\ UNCHANGED <<current, over, up, wire, shows>>
      BY <2>6 DEF WorkerReads, Reads
    <3>2. report'[Service] = report[Service]
      BY <1>1, <3>1
    <3> QED BY <1>1, <1>4, <1>5, <3>1, <3>2
  <2>7. CASE Finish(j)
    <3>1. over' = over \cup {j} /\ UNCHANGED <<current, worker, up, report, wire, shows>>
      BY <2>7 DEF Finish
    <3> QED BY <1>4, <1>5, <3>1
  <2> QED BY <1>7, <2>1, <2>2, <2>3, <2>4, <2>5, <2>6, <2>7 DEF WorkerStep
<1>8. ASSUME NEW j \in Jobs, Submit(j) PROVE LastIsDue'
  <2>1. /\ current' = j /\ worker' = [worker EXCEPT ![j] = "new"] /\ UNCHANGED <<wire, shows>>
    BY <1>8 DEF Submit
  <2>2. Due(r)'
    BY <1>1, <2>1 DEF Due
  <2> QED BY <1>4, <2>1, <2>2, LastIsDueThen
<1>9. ASSUME NEW x \in Reporters, SendReport(x) PROVE LastIsDue'
  <2> DEFINE e == report[x]
  <2>1. /\ e \in Report /\ e.kind \in {"state", "job"} /\ Emit(<<e>>)
        /\ report' = [report EXCEPT ![x] = ThenReads(x)]
        /\ UNCHANGED <<current, worker, over, up, shows>>
    BY <1>1, <1>9 DEF SendReport
  <2>2. e \in Message
    BY <2>1 DEF Message
  <2>3. PICK q \in Jobs \cup {None} :
          q = After(r, e) /\ Leads(wire', shows', IF up THEN q ELSE r)
    BY <1>4, <2>1, <2>2, AfterType, EmitOne
  <2>4. OwesNothing' => Due(q)'
    <3> SUFFICES ASSUME OwesNothing' PROVE Due(q)'
      OBVIOUS
    <3>1. ~May("reports_overlap") /\ IsTrue(e)
      BY <1>1, <1>3 DEF OwesNothing, May, SlotInv, ReportsAreTrue
    <3>2. CASE q = current \/ (current \in over /\ q = None)
      BY <2>1, <3>2 DEF Due
    <3>3. CASE e.kind = "job" /\ q = r
      <4>1. report[Service].kind # "state"
        <5>1. CASE x = Service
          BY <3>3, <5>1
        <5>2. CASE x # Service
          BY <1>1, <2>1, <5>2 DEF OwesNothing
        <5> QED BY <5>1, <5>2
      <4>2. Due(r)
        BY <1>4, <2>1, <3>1, <4>1 DEF OwesNothing
      <4> QED BY <2>1, <3>3, <4>2 DEF Due
    <3> QED BY <2>1, <2>3, <3>1, <3>2, <3>3, AfterTruth
  <2> QED BY <1>6, <2>1, <2>3, <2>4
<1>10. CASE Tick
  <2>1. Emit(Flushed(batch)) /\ UNCHANGED <<current, worker, over, up, report, shows>>
    BY <1>10 DEF Tick
  <2>2. Leads(wire', shows', r)
    BY <1>4, <2>1, FlushedIsSound, EmitLines
  <2> QED BY <1>5, <2>1, <2>2
<1>11. CASE SendAnswer
  <2>1. /\ Emit(<<served>>) /\ served \in Answer
        /\ UNCHANGED <<current, worker, over, up, report, shows>>
    BY <1>11 DEF SendAnswer, Inv, TypeOK
  <2>2. <<served>> \in Seq(Message) /\ On(<<served>>) = {served}
    BY <2>1 DEF Message, On
  <2>3. Leads(wire', shows', r)
    BY <1>4, <2>1, <2>2, EmitLines
  <2> QED BY <1>5, <2>1, <2>3
<1>12. CASE JobGet \/ ReaderReads \/ CancellerReads \/ UNCHANGED vars
  <2>1. /\ UNCHANGED <<current, worker, over, up, wire, shows>>
        /\ report'[Service] = report[Service]
    BY <1>1, <1>12 DEF JobGet, ReaderReads, CancellerReads, Reads, vars
  <2> QED BY <1>4, <1>5, <2>1
<1>13. CASE Reconnect
  <2>1. UNCHANGED <<wire, shows>> /\ report'[Service].kind = "state"
    BY <1>1, <1>13 DEF Reconnect, Reads, Status
  <2> QED BY <1>4, <2>1, LastIsDueThen DEF OwesNothing
<1>14. CASE Drop
  <2>1. wire' = <<>> /\ UNCHANGED shows /\ ~up'
    BY <1>14 DEF Drop
  <2> QED BY <1>1, <2>1, LeadsNowhere, LastIsDueThen DEF OwesNothing
<1>15. CASE See
  <2>1. /\ wire \in Seq(Message) /\ wire # <<>> /\ wire' = Tail(wire)
        /\ UNCHANGED <<current, worker, over, up, report>>
    BY <1>15 DEF See, Inv, WireInv
  <2>2. Leads(wire', shows', r)
    BY <1>4, <1>15, <2>1, LeadsOn, SeesWhatItSays
  <2> QED BY <1>5, <2>1, <2>2
<1>16. ASSUME NEW j \in Jobs, Cancel(j) PROVE LastIsDue'
  <2>1. /\ Emit(Flushed(batch)) /\ UNCHANGED <<current, worker, over, up, shows>>
        /\ report'[Service] = report[Service]
    BY <1>1, <1>16 DEF Cancel
  <2>2. Leads(wire', shows', r)
    BY <1>4, <2>1, FlushedIsSound, EmitLines
  <2> QED BY <1>5, <2>1, <2>2
<1> QED BY <1>7, <1>8, <1>9, <1>10, <1>11, <1>12, <1>13, <1>14, <1>15, <1>16
        DEF Next, AgentStep

LEMMA ShownInit == Init => SlotInv /\ LastIsDue
<1> SUFFICES ASSUME Init PROVE SlotInv /\ LastIsDue
  OBVIOUS
<1>1. /\ current = None /\ shows = None /\ None \notin Jobs /\ wire = <<>>
      /\ \A j \in Jobs : worker[j] = "none"
      /\ \A x \in Reporters : report[x] = NoReport
      /\ Jobs \subseteq Reporters
  BY DEF Init, Jobs, None, Reporters
<1>2. SlotInv
  BY <1>1 DEF SlotInv, SlotIsOfWorker, WorkersReportLast, OverBeforeTheEnd, ReportsAreTrue,
              IsTrue, NoReport
<1>3. LastIsDue
  BY <1>1, LeadsNowhere DEF LastIsDue, Due
<1> QED BY <1>2, <1>3

\* For any number of jobs, of lost connections and of changes of Klipper's service: when all is
\* quiet the panel shows the job that runs, or none, unless reports overlapped.
THEOREM PanelShowsTheRunningJob == Spec => []PanelShowsTheJob
<1>1. Init => Inv /\ SlotInv /\ LastIsDue
  BY InvInit, ShownInit
<1>2. Inv /\ SlotInv /\ LastIsDue /\ [Next]_vars => Inv' /\ SlotInv' /\ LastIsDue'
  BY InvNext, SlotNext, LastNext
<1>3. Inv /\ SlotInv /\ LastIsDue => PanelShowsTheJob
  <2> SUFFICES ASSUME Inv, SlotInv, LastIsDue, ~May("reports_overlap"), Quiet
               PROVE  shows = current
    BY DEF PanelShowsTheJob
  <2>1. /\ up /\ wire = <<>> /\ report[Service].kind # "state"
        /\ \A j \in Jobs : worker[j] \notin {"new", "ending"}
        /\ current \notin over
    BY DEF Quiet, Reporters, NoReport
  <2>2. PICK r \in Jobs \cup {None} : Leads(<<>>, shows, r) /\ Due(r)
    BY <2>1 DEF LastIsDue, OwesNothing
  <2>3. r = shows
    BY <2>2 DEF Leads, Trace
  <2> QED BY <2>1, <2>2, <2>3 DEF Due, Inv, TypeOK
<1> QED BY <1>1, <1>2, <1>3, PTL DEF Spec
=============================================================================
