----------------------------- MODULE MainProofs -----------------------------
(* What TLAPS proves about the command line tool, for any command line, any *)
(* devices and any capacity of the request channel: it is well typed, the   *)
(* commands arrive in their order, each at most once, and a listing shows   *)
(* what is there.                                                           *)
EXTENDS Main, FiniteSetTheorems, SequenceTheorems, TLAPS

-----------------------------------------------------------------------------
(* Types.                                                                   *)

Word == [topic : {"info", "enabled"}, slug : Slugs, body : {"device", "on", "off", None}]

SubInfo    == Mqtt!SubscribeTo("info")
SubEnabled == Mqtt!SubscribeTo("enabled")
Bye        == Mqtt!Disconnect
Request    == Word \cup {SubInfo, SubEnabled, Bye}

Group   == [kind : {"publish"}, slugs : Seq(Slugs), body : {"on", "off", None}]
Task    == {ListDevices} \cup Group
Listing == [infos : SUBSET Slugs, enabled : [Slugs -> {"device", "on", "off", None}]]

Session == [open : BOOLEAN, kinds : SUBSET {"info", "enabled"}]

Connections == {"connecting", "infos", "switches", "reading", "publishing",
                "closing", "joining"}

SessionTypes ==
    /\ task \in {"none", "polling", "backoff", "ended"}
    /\ state \in {"Connecting", "Connected", "PermanentFailure"}
    /\ flag \in BOOLEAN
    /\ link \in {"down", "up", "broken"}
    /\ outbox \in Seq(Request) /\ Len(outbox) <= MaxOutbox

BrokerTypes ==
    /\ net \in {"up", "down", "refusing"}
    /\ sessions \in [{Me} -> Session]
    /\ retained \in [RetainedTopics -> {"device", "on", "off", None}]
    /\ incoming \in Seq(Word)

ToolTypes ==
    /\ stage \in Connections \cup {"next", "exited"}
    /\ stage \in {"next", "exited"} <=> task = "none"
    /\ jobs \in Seq(Task) /\ left \in Seq(Slugs)
    /\ stage \in Connections => jobs # <<>>
    /\ leaked \in Nat /\ smooth \in BOOLEAN
    /\ listing \in Listing
    /\ asked \in Seq(Word) /\ arrived \in Seq(Word)

ModeTypes ==
    /\ args \in CommandLines
    /\ mode = into_runtime(args)
    /\ mode # "tool" => stage = "exited"
    /\ rc \in {0, 1, 2}
    /\ mode = "rejected" <=> rc = 2

MainTypes == SessionTypes /\ BrokerTypes /\ ToolTypes /\ ModeTypes

-----------------------------------------------------------------------------
(* The layout of a command line: where the commands of each job begin among *)
(* all that are wanted.                                                     *)

Layout(tasks, words) ==
    { begin \in [1..(Len(tasks) + 1) -> 0..Len(words)] :
        /\ begin[1] = 0 /\ begin[Len(tasks) + 1] = Len(words)
        /\ \A j \in DOMAIN tasks :
              /\ begin[j + 1] = begin[j] + Len(tasks[j].slugs)
              /\ \A i \in DOMAIN tasks[j].slugs :
                    words[begin[j] + i] = Command(tasks[j].slugs[i], tasks[j].body) }

Begin == CHOOSE begin \in Layout(JobsOf(args), Wanted(args)) : TRUE

(* The number of the present job, and how many of the wanted commands have  *)
(* had their turn: they are asked for, or their job was given up.           *)
Turn == Len(JobsOf(args)) - Len(jobs) + 1

Cursor ==
    IF stage \in Connections
    THEN Begin[Turn] + Len(Head(jobs).slugs) - Len(left)
    ELSE Begin[Turn]

-----------------------------------------------------------------------------
(* The invariant.                                                           *)

(* The jobs that are left are the last of the command line; of the present  *)
(* one, so are the slugs.                                                   *)
JobFacts ==
    /\ Len(jobs) <= Len(JobsOf(args))
    /\ \A i \in DOMAIN jobs : jobs[i] = JobsOf(args)[Turn - 1 + i]
    /\ stage \in Connections =>
          /\ Len(left) <= Len(Head(jobs).slugs)
          /\ \A i \in DOMAIN left :
                left[i] = Head(jobs).slugs[Len(Head(jobs).slugs) - Len(left) + i]
    /\ stage \in {"infos", "switches", "reading", "closing", "joining"} => left = <<>>
    /\ stage = "exited" => jobs = <<>>

(* The commands in the request channel.                                     *)
Waiting == {k \in DOMAIN outbox : outbox[k].topic = "enabled"}

(* What has arrived, and what is waiting after that, is wanted, in its      *)
(* order and before the cursor.                                             *)
Places(p, q) ==
    /\ \A i \in DOMAIN arrived : arrived[i] = Wanted(args)[p[i]]
    /\ \A k \in Waiting : outbox[k] = Wanted(args)[q[k]]
    /\ \A i, j \in DOMAIN arrived : i < j => p[i] < p[j]
    /\ \A k, l \in Waiting : k < l => q[k] < q[l]
    /\ \A i \in DOMAIN arrived, k \in Waiting : p[i] < q[k]

OrderFacts ==
    \E p \in [DOMAIN arrived -> 1..Cursor], q \in [Waiting -> 1..Cursor] : Places(p, q)

(* While nothing breaks, what is asked for has arrived or is waiting,       *)
(* without a gap.                                                           *)
SmoothFacts ==
    smooth =>
        /\ Len(arrived) <= Len(asked)
        /\ \A i \in DOMAIN arrived : arrived[i] = asked[i]
        /\ Waiting = 1..(Len(asked) - Len(arrived))
        /\ \A k \in Waiting : outbox[k] = asked[Len(arrived) + k]

(* A tool that has given nothing up has asked for all up to the cursor.     *)
AskedFacts ==
    rc = 0 => /\ Len(asked) = Cursor
              /\ \A i \in DOMAIN asked : asked[i] = Wanted(args)[i]

(* The session: nothing is requested before the connection is up, nothing   *)
(* is left when the event task has ended, and while nothing breaks the      *)
(* connection stays up until the DISCONNECT, the last request, is taken.    *)
QueueFacts ==
    /\ stage \in {"next", "exited", "connecting"} => outbox = <<>>
    /\ stage = "publishing" => Waiting = DOMAIN outbox
    /\ task = "ended" => outbox = <<>>
    /\ \A k \in DOMAIN outbox : outbox[k] = Bye => k = Len(outbox) /\ stage = "joining"
    /\ link = "up" => task = "polling"
    /\ smooth =>
          /\ stage = "connecting" /\ state = "Connected" => link = "up"
          /\ stage \in Connections \ {"connecting", "joining"} => link = "up"
          /\ stage = "joining" => link = "up" \/ outbox = <<>>

ToolInv == JobFacts /\ OrderFacts /\ SmoothFacts /\ AskedFacts

MainInv == MainTypes /\ QueueFacts /\ (mode = "tool" => ToolInv)

-----------------------------------------------------------------------------
(* Messages.                                                                *)

(* The requests are told apart by their topics.                             *)
LEMMA RequestLemma ==
    /\ \A msg \in Word : msg.topic \in {"info", "enabled"}
    /\ SubInfo.topic = "subscribe" /\ SubInfo.body = "info"
    /\ SubEnabled.topic = "subscribe" /\ SubEnabled.body = "enabled"
    /\ Bye.topic = "disconnect"
    /\ {SubInfo, SubEnabled, Bye} \subseteq Request
    /\ \A s \in Slugs, body \in {"on", "off", None} :
          Command(s, body) \in Word /\ Command(s, body).topic = "enabled"
  BY DEF Word, Request, SubInfo, SubEnabled, Bye, Mqtt!SubscribeTo, Mqtt!Disconnect,
         Command

LEMMA TopicsAreFinite == IsFiniteSet(RetainedTopics)
<1>1. IsFiniteSet({"info"})
  BY FS_Singleton
<1>2. IsFiniteSet({"info"} \cup {"enabled"})
  BY <1>1, FS_AddElement
<1>3. IsFiniteSet({"info", "enabled"})
  BY <1>2
<1> QED
  BY <1>3, SlugsAssumption, FS_Product DEF RetainedTopics

(* A replay is a sequence of what the broker retains.                       *)
LEMMA ReplayLemma ==
    ASSUME BrokerTypes, NEW kind \in {"info", "enabled"},
           NEW replay \in Mqtt!Replay(kind)
    PROVE  replay \in Seq(Word)
<1> DEFINE held == {t \in RetainedTopics : t[1] = kind /\ retained[t] # None}
<1>1. PICK order \in Mqtt!Lists!SetToSeqs(held) :
         replay = [k \in DOMAIN order |->
                     [topic |-> kind, slug |-> order[k][2], body |-> retained[order[k]]]]
  BY DEF Mqtt!Replay
<1>2. IsFiniteSet(held)
  BY TopicsAreFinite, FS_Subset
<1>3. \A t \in held : t \in RetainedTopics
  OBVIOUS
<1> HIDE DEF held
<1>4. Mqtt!Lists!Cardinality(held) = Cardinality(held)
  BY DEF Mqtt!Lists!Cardinality, Cardinality
<1>5. order \in [1..Cardinality(held) -> held]
  BY <1>1, <1>4 DEF Mqtt!Lists!SetToSeqs
<1>6. Cardinality(held) \in Nat
  BY <1>2, FS_CardinalityType
<1>7. \A t \in RetainedTopics :
         [topic |-> kind, slug |-> t[2], body |-> retained[t]] \in Word
  BY DEF RetainedTopics, Word, BrokerTypes
<1>8. replay \in [1..Cardinality(held) -> Word]
  BY <1>1, <1>3, <1>5, <1>7
<1> QED
  BY <1>6, <1>8

(* Jobs have slugs; those of a listing are none.                            *)
LEMMA TaskLemma ==
    /\ \A job \in Task : job.slugs \in Seq(Slugs)
    /\ \A job \in Task : job.kind \in {"list", "publish"}
    /\ \A job \in Task : job.kind = "list" => job.slugs = <<>>
    /\ \A job \in Task : job.kind = "publish" => job.body \in {"on", "off", None}
    /\ \A slugs \in Seq(Slugs), body \in {"on", "off", None} : Job(body, slugs) \in Task
<1>1. ListDevices.slugs = <<>> /\ ListDevices.kind = "list" /\ ListDevices.slugs \in Seq(Slugs)
  BY DEF ListDevices
<1>2. \A job \in Group : /\ job.slugs \in Seq(Slugs) /\ job.kind = "publish"
                         /\ job.body \in {"on", "off", None}
  BY DEF Group
<1>3. \A slugs \in Seq(Slugs), body \in {"on", "off", None} : Job(body, slugs) \in Group
  BY DEF Job, Group
<1> QED
  BY <1>1, <1>2, <1>3 DEF Task

-----------------------------------------------------------------------------
(* The layout.                                                              *)

(* A group adds its commands behind the others, and a job for them unless   *)
(* there are none.                                                          *)
LEMMA GroupLemma ==
    ASSUME NEW tasks \in Seq(Task), NEW words \in Seq(Word),
           NEW begin \in Layout(tasks, words),
           NEW slugs \in Seq(Slugs), NEW body \in {"on", "off", None},
           NEW more, more = IF slugs = <<>> THEN <<>> ELSE <<Job(body, slugs)>>
    PROVE  /\ tasks \o more \in Seq(Task)
           /\ words \o Commands(slugs, body) \in Seq(Word)
           /\ Layout(tasks \o more, words \o Commands(slugs, body)) # {}
<1>1. /\ Commands(slugs, body) \in Seq(Word) /\ Len(Commands(slugs, body)) = Len(slugs)
      /\ \A i \in DOMAIN slugs : Commands(slugs, body)[i] = Command(slugs[i], body)
  <2>1. \A i \in DOMAIN slugs : Command(slugs[i], body) \in Word
    BY ElementOfSeq, RequestLemma
  <2>2. Commands(slugs, body) \in [1..Len(slugs) -> Word]
    BY <2>1 DEF Commands
  <2> QED
    BY <2>2 DEF Commands
<1> DEFINE said == Commands(slugs, body)
<1> HIDE DEF said
<1>2. /\ said \in Seq(Word) /\ Len(said) = Len(slugs)
      /\ \A i \in DOMAIN slugs : said[i] = Command(slugs[i], body)
  BY <1>1 DEF said
<1>3. CASE slugs = <<>>
  <2>1. said = <<>> /\ more = <<>>
    BY <1>2, <1>3
  <2>2. tasks \o more = tasks /\ words \o said = words
    BY <2>1
  <2> QED
    BY <1>2, <2>2 DEF said
<1>4. CASE slugs # <<>>
  <2>1. more = <<Job(body, slugs)>> /\ more \in Seq(Task) /\ Len(more) = 1
    BY <1>4, TaskLemma
  <2>2. /\ tasks \o more \in Seq(Task)
        /\ DOMAIN (tasks \o more) = 1..(Len(tasks) + 1)
        /\ Len(tasks \o more) = Len(tasks) + 1
        /\ \A j \in DOMAIN tasks : (tasks \o more)[j] = tasks[j]
        /\ (tasks \o more)[Len(tasks) + 1] = Job(body, slugs)
    BY <2>1, ConcatProperties
  <2>3. /\ words \o said \in Seq(Word)
        /\ Len(words \o said) = Len(words) + Len(slugs)
        /\ \A i \in DOMAIN words : (words \o said)[i] = words[i]
        /\ \A i \in DOMAIN slugs : (words \o said)[Len(words) + i] = Command(slugs[i], body)
    <3>1. DOMAIN slugs = 1..Len(slugs) /\ Len(slugs) \in Nat /\ Len(words) \in Nat
      OBVIOUS
    <3>2. /\ words \o said \in Seq(Word)
          /\ Len(words \o said) = Len(words) + Len(said)
          /\ \A i \in 1..(Len(words) + Len(said)) : (words \o said)[i] =
                IF i <= Len(words) THEN words[i] ELSE said[i - Len(words)]
      <4>1. words \in Seq(Word) /\ said \in Seq(Word)
        BY <1>2
      <4> QED
        BY <4>1, ConcatProperties, Zenon
    <3> QED
      BY <1>2, <3>1, <3>2
  <2> DEFINE next == [j \in 1..(Len(tasks) + 2) |->
                        IF j <= Len(tasks) + 1 THEN begin[j] ELSE Len(words) + Len(slugs)]
  <2>4. /\ begin \in [1..(Len(tasks) + 1) -> 0..Len(words)]
        /\ begin[1] = 0 /\ begin[Len(tasks) + 1] = Len(words)
        /\ \A j \in DOMAIN tasks :
              /\ begin[j + 1] = begin[j] + Len(tasks[j].slugs)
              /\ \A i \in DOMAIN tasks[j].slugs :
                    words[begin[j] + i] = Command(tasks[j].slugs[i], tasks[j].body)
    BY DEF Layout
  <2>5. next \in [1..(Len(tasks \o more) + 1) -> 0..Len(words \o said)]
    BY <2>2, <2>3, <2>4
  <2>6. /\ \A j \in 1..(Len(tasks) + 1) : next[j] = begin[j]
        /\ next[Len(tasks) + 2] = Len(words) + Len(slugs)
    OBVIOUS
  <2> HIDE DEF next
  <2>7. next[1] = 0 /\ next[Len(tasks \o more) + 1] = Len(words \o said)
    BY <2>2, <2>3, <2>4, <2>6
  <2>8. ASSUME NEW j \in DOMAIN tasks
        PROVE  /\ next[j] = begin[j] /\ next[j + 1] = begin[j + 1]
               /\ begin[j] \in 0..Len(words) /\ begin[j + 1] \in 0..Len(words)
    <3>1. j \in 1..(Len(tasks) + 1) /\ j + 1 \in 1..(Len(tasks) + 1)
      OBVIOUS
    <3>2. begin[j] \in 0..Len(words) /\ begin[j + 1] \in 0..Len(words)
      BY <2>4, <3>1
    <3> QED
      BY <2>6, <3>1, <3>2
  <2>9. ASSUME NEW j \in DOMAIN tasks, NEW i \in DOMAIN tasks[j].slugs
        PROVE  (begin[j] + i) \in DOMAIN words
    <3>1. tasks[j].slugs \in Seq(Slugs)
      BY TaskLemma, ElementOfSeq
    <3>2. i \in 1..Len(tasks[j].slugs) /\ Len(tasks[j].slugs) \in Nat
      BY <3>1
    <3>3. begin[j + 1] = begin[j] + Len(tasks[j].slugs)
      BY <2>4
    <3> QED
      BY <2>8, <3>2, <3>3
  <2>10. ASSUME NEW j \in DOMAIN (tasks \o more)
         PROVE  /\ next[j + 1] = next[j] + Len((tasks \o more)[j].slugs)
                /\ \A i \in DOMAIN (tasks \o more)[j].slugs :
                     (words \o said)[next[j] + i]
                       = Command((tasks \o more)[j].slugs[i], (tasks \o more)[j].body)
    <3>1. CASE j \in DOMAIN tasks
      <4>1. (tasks \o more)[j] = tasks[j]
        BY <2>2, <3>1
      <4>2. next[j + 1] = next[j] + Len(tasks[j].slugs) /\ next[j] = begin[j]
        BY <2>4, <2>8, <3>1
      <4>3. \A i \in DOMAIN tasks[j].slugs :
               (words \o said)[next[j] + i] = Command(tasks[j].slugs[i], tasks[j].body)
        BY <2>3, <2>4, <2>9, <3>1, <4>2
      <4> QED
        BY <4>1, <4>2, <4>3
    <3>2. CASE j = Len(tasks) + 1
      <4>1. next[j] = Len(words) /\ next[j + 1] = Len(words) + Len(slugs)
        BY <2>4, <2>6, <3>2
      <4>2. /\ (tasks \o more)[j].slugs = slugs
            /\ (tasks \o more)[j].body = body
        BY <2>2, <3>2 DEF Job
      <4> QED
        BY <2>3, <4>1, <4>2
    <3>3. j \in DOMAIN tasks \/ j = Len(tasks) + 1
      <4>1. DOMAIN tasks = 1..Len(tasks) /\ Len(tasks) \in Nat
        OBVIOUS
      <4>2. j \in 1..(Len(tasks) + 1)
        BY <2>2
      <4> QED
        BY <4>1, <4>2
    <3> QED
      BY <3>1, <3>2, <3>3
  <2>11. next \in Layout(tasks \o more, words \o said)
    BY <2>5, <2>7, <2>10 DEF Layout
  <2> QED
    BY <2>2, <2>3, <2>11 DEF said
<1> QED
  BY <1>3, <1>4

(* Every command line of the tool has a layout.                             *)
LEMMA LayoutLemma ==
    ASSUME ModeTypes, mode = "tool"
    PROVE  /\ JobsOf(args) \in Seq(Task) /\ Wanted(args) \in Seq(Word)
           /\ Begin \in Layout(JobsOf(args), Wanted(args))
<1>1. /\ args.enable_device \in Seq(Slugs) /\ args.disable_device \in Seq(Slugs)
      /\ args.remove_device \in Seq(Slugs)
  BY CommandLinesAssumption DEF ModeTypes, Args
<1>2. args.list_devices => ~Manages(args)
  <2>1. Conflict(args) => into_runtime(args) = "rejected"
    BY DEF into_runtime
  <2> QED
    BY <2>1 DEF ModeTypes, Conflict
<1> DEFINE on  == Commands(args.enable_device, "on")
           off == Commands(args.disable_device, "off")
           rem == Commands(args.remove_device, None)
<1>3. Wanted(args) = ((<<>> \o on) \o off) \o rem
  <2>1. on \in Seq(Word)
    <3>1. \A i \in DOMAIN args.enable_device : Command(args.enable_device[i], "on") \in Word
      BY <1>1, ElementOfSeq, RequestLemma
    <3>2. on \in [1..Len(args.enable_device) -> Word]
      BY <1>1, <3>1 DEF Commands
    <3> QED
      BY <1>1, <3>2
  <2> QED
    BY <2>1 DEF Wanted
<1>4. CASE args.list_devices
  <2>1. on = <<>> /\ off = <<>> /\ rem = <<>>
    BY <1>2, <1>4 DEF Manages, Commands
  <2>2. Wanted(args) = <<>>
    BY <1>3, <2>1
  <2>3. JobsOf(args) = <<ListDevices>> /\ ListDevices \in Task /\ ListDevices.slugs = <<>>
    BY <1>4 DEF JobsOf, Task, ListDevices
  <2> DEFINE begin == [j \in 1..2 |-> 0]
  <2>4. begin \in Layout(<<ListDevices>>, <<>>)
    BY <2>3 DEF Layout
  <2> QED
    BY <2>2, <2>3, <2>4 DEF Begin
<1>5. CASE ~args.list_devices
  <2> DEFINE A == IF args.enable_device = <<>> THEN <<>> ELSE <<Job("on", args.enable_device)>>
             B == IF args.disable_device = <<>> THEN <<>> ELSE <<Job("off", args.disable_device)>>
             C == IF args.remove_device = <<>> THEN <<>> ELSE <<Job(None, args.remove_device)>>
  <2>1. A \in Seq(Task)
    BY <1>1, TaskLemma
  <2>2. JobsOf(args) = ((<<>> \o A) \o B) \o C
    BY <1>5, <2>1 DEF JobsOf, Manage
  <2>3. PICK first : first \in Layout(<<>>, <<>>)
    <3> DEFINE begin == [j \in 1..1 |-> 0]
    <3>1. begin \in Layout(<<>>, <<>>)
      BY DEF Layout
    <3> QED
      BY <3>1
  <2> HIDE DEF on, off, rem, A, B, C
  <2>4. <<>> \in Seq(Task) /\ <<>> \in Seq(Word)
    OBVIOUS
  <2>5. /\ <<>> \o A \in Seq(Task) /\ <<>> \o on \in Seq(Word)
        /\ Layout(<<>> \o A, <<>> \o on) # {}
    BY <1>1, <2>3, <2>4, GroupLemma DEF on, A
  <2>6. PICK second : second \in Layout(<<>> \o A, <<>> \o on)
    BY <2>5
  <2>7. /\ (<<>> \o A) \o B \in Seq(Task) /\ (<<>> \o on) \o off \in Seq(Word)
        /\ Layout((<<>> \o A) \o B, (<<>> \o on) \o off) # {}
    BY <1>1, <2>5, <2>6, GroupLemma DEF off, B
  <2>8. PICK third : third \in Layout((<<>> \o A) \o B, (<<>> \o on) \o off)
    BY <2>7
  <2>9. /\ ((<<>> \o A) \o B) \o C \in Seq(Task)
        /\ ((<<>> \o on) \o off) \o rem \in Seq(Word)
        /\ Layout(((<<>> \o A) \o B) \o C, ((<<>> \o on) \o off) \o rem) # {}
    BY <1>1, <2>7, <2>8, GroupLemma DEF rem, C
  <2> QED
    BY <1>3, <2>2, <2>9 DEF Begin, on, off, rem
<1> QED
  BY <1>4, <1>5
-----------------------------------------------------------------------------
(* The cursor.                                                              *)

(* The present job is the one whose turn it is, and what is left of it is   *)
(* what is wanted next.                                                     *)
LEMMA CursorLemma ==
    ASSUME ToolTypes, ModeTypes, mode = "tool", JobFacts
    PROVE  /\ Wanted(args) \in Seq(Word)
           /\ Cursor \in 0..Len(Wanted(args))
           /\ Turn \in 1..(Len(JobsOf(args)) + 1)
           /\ jobs = <<>> => Cursor = Len(Wanted(args))
           /\ jobs # <<>> =>
                /\ Turn \in DOMAIN JobsOf(args)
                /\ Head(jobs) = JobsOf(args)[Turn] /\ Head(jobs) \in Task
                /\ Head(jobs).slugs \in Seq(Slugs)
                /\ Begin[Turn] \in 0..Len(Wanted(args))
                /\ Begin[Turn + 1] \in 0..Len(Wanted(args))
                /\ Begin[Turn + 1] = Begin[Turn] + Len(Head(jobs).slugs)
           /\ stage \in Connections /\ left # <<>> =>
                /\ Cursor + 1 \in DOMAIN Wanted(args)
                /\ Wanted(args)[Cursor + 1] = Command(Head(left), Head(jobs).body)
<1>1. /\ JobsOf(args) \in Seq(Task) /\ Wanted(args) \in Seq(Word)
      /\ Begin \in Layout(JobsOf(args), Wanted(args))
  BY LayoutLemma
<1>2. /\ Begin \in [1..(Len(JobsOf(args)) + 1) -> 0..Len(Wanted(args))]
      /\ Begin[Len(JobsOf(args)) + 1] = Len(Wanted(args))
      /\ \A j \in DOMAIN JobsOf(args) :
            /\ Begin[j + 1] = Begin[j] + Len(JobsOf(args)[j].slugs)
            /\ \A i \in DOMAIN JobsOf(args)[j].slugs :
                  Wanted(args)[Begin[j] + i]
                    = Command(JobsOf(args)[j].slugs[i], JobsOf(args)[j].body)
  BY <1>1 DEF Layout
<1> DEFINE N == Len(JobsOf(args))
           M == Len(Wanted(args))
<1>3. /\ N \in Nat /\ DOMAIN JobsOf(args) = 1..N
      /\ M \in Nat /\ DOMAIN Wanted(args) = 1..M
      /\ Len(jobs) \in 0..N /\ Len(left) \in Nat
      /\ DOMAIN jobs = 1..Len(jobs) /\ DOMAIN left = 1..Len(left)
  BY <1>1 DEF ToolTypes, JobFacts
<1>4. Turn \in 1..(N + 1) /\ Turn = N - Len(jobs) + 1
  BY <1>3 DEF Turn
<1>5. CASE jobs = <<>>
  <2>1. Turn = N + 1 /\ stage \notin Connections
    BY <1>4, <1>5 DEF ToolTypes
  <2>2. Cursor = M
    <3>1. Cursor = Begin[Turn]
      BY <2>1 DEF Cursor
    <3> QED
      BY <1>2, <2>1, <3>1
  <2> QED
    BY <1>1, <1>3, <1>4, <1>5, <2>1, <2>2
<1>6. CASE jobs # <<>>
  <2>1. Len(jobs) \in 1..N
    BY <1>3, <1>6, EmptySeq DEF ToolTypes
  <2>2. Turn \in 1..N
    BY <1>3, <1>4, <2>1
  <2>3. Head(jobs) = jobs[1] /\ 1 \in DOMAIN jobs
    BY <1>3, <1>6, <2>1 DEF ToolTypes
  <2>4. Head(jobs) = JobsOf(args)[Turn]
    <3>1. jobs[1] = JobsOf(args)[Turn - 1 + 1]
      BY <2>3 DEF JobFacts
    <3> QED
      BY <2>2, <2>3, <3>1
  <2>5. Head(jobs) \in Task /\ Head(jobs).slugs \in Seq(Slugs)
    BY <1>1, <1>3, <2>2, <2>4, ElementOfSeq, TaskLemma
  <2> DEFINE slugs == Head(jobs).slugs
  <2>6. Len(slugs) \in Nat /\ DOMAIN slugs = 1..Len(slugs)
    BY <2>5
  <2>7. /\ Begin[Turn] \in 0..M /\ Begin[Turn + 1] \in 0..M
        /\ Begin[Turn + 1] = Begin[Turn] + Len(slugs)
        /\ \A i \in DOMAIN slugs : Wanted(args)[Begin[Turn] + i]
                                     = Command(slugs[i], Head(jobs).body)
    <3>1. Turn \in DOMAIN JobsOf(args) /\ Turn \in 1..(N + 1) /\ Turn + 1 \in 1..(N + 1)
      BY <1>3, <2>2
    <3>2. Begin[Turn] \in 0..M /\ Begin[Turn + 1] \in 0..M
      BY <1>2, <3>1
    <3> QED
      BY <1>2, <2>4, <3>1, <3>2
  <2>8. ASSUME stage \in Connections
        PROVE  /\ Len(left) <= Len(slugs)
               /\ Cursor = Begin[Turn] + Len(slugs) - Len(left)
               /\ \A i \in DOMAIN left : left[i] = slugs[Len(slugs) - Len(left) + i]
    BY <2>8 DEF JobFacts, Cursor
  <2> HIDE DEF slugs
  <2>9. Cursor \in 0..M
    <3>1. CASE stage \in Connections
      BY <1>3, <2>6, <2>7, <2>8, <3>1
    <3>2. CASE stage \notin Connections
      BY <2>7, <3>2 DEF Cursor
    <3> QED
      BY <3>1, <3>2
  <2>10. ASSUME stage \in Connections, left # <<>>
         PROVE  /\ Cursor + 1 \in 1..M
                /\ Wanted(args)[Cursor + 1] = Command(Head(left), Head(jobs).body)
    <3>1. Len(left) > 0 /\ 1 \in DOMAIN left /\ Head(left) = left[1]
      BY <1>3, <2>10, EmptySeq DEF ToolTypes
    <3> DEFINE i == Len(slugs) - Len(left) + 1
    <3>2. i \in DOMAIN slugs /\ Head(left) = slugs[i]
      BY <1>3, <2>6, <2>8, <2>10, <3>1
    <3>3. Cursor + 1 = Begin[Turn] + i
      <4>1. Cursor = Begin[Turn] + Len(slugs) - Len(left)
        BY <2>8, <2>10
      <4>2. Begin[Turn] \in Nat /\ Len(slugs) \in Nat /\ Len(left) \in Nat
        BY <1>3, <2>6, <2>7
      <4> QED
        BY <4>1, <4>2
    <3>4. Cursor + 1 \in 1..M
      <4>1. i \in 1..Len(slugs)
        BY <2>6, <3>2
      <4>2. Begin[Turn] + i \in 1..M
        <5> DEFINE begin == Begin[Turn]
                   end   == Begin[Turn + 1]
                   size  == Len(slugs)
        <5>1. begin \in 0..M /\ end \in 0..M /\ end = begin + size /\ M \in Nat /\ size \in Nat
          BY <1>3, <2>6, <2>7
        <5> HIDE DEF i, begin, end, size, M
        <5>2. i \in 1..size
          BY <4>1 DEF size
        <5>3. begin + i \in 1..M
          BY <5>1, <5>2
        <5> QED
          BY <5>3 DEF begin
      <4> QED
        BY <3>3, <4>2
    <3> HIDE DEF i
    <3>5. Wanted(args)[Begin[Turn] + i] = Command(slugs[i], Head(jobs).body)
      BY <2>7, <3>2
    <3> QED
      BY <3>2, <3>3, <3>4, <3>5, Zenon
  <2> QED
    BY <1>1, <1>3, <1>4, <1>6, <2>2, <2>4, <2>5, <2>7, <2>9, <2>10, Zenon
       DEF slugs
<1> QED
  BY <1>5, <1>6

-----------------------------------------------------------------------------
(* What a step can do to the jobs.                                          *)

Rests == UNCHANGED <<stage, jobs, left, rc, asked>>

Opens ==
    /\ Goes("next", "connecting")
    /\ jobs # <<>>
    /\ left' = Head(jobs).slugs
    /\ UNCHANGED <<jobs, rc, asked>>

Onward ==
    /\ stage \in Connections /\ stage' \in Connections
    /\ stage' \in {"infos", "switches", "reading", "closing", "joining"} => left = <<>>
    /\ UNCHANGED <<jobs, left, rc, asked>>

Publishes ==
    /\ stage = "publishing" /\ stage' = stage
    /\ left # <<>>
    /\ left' = Tail(left)
    /\ asked' = Append(asked, Command(Head(left), Head(jobs).body))
    /\ outbox' = Append(outbox, Command(Head(left), Head(jobs).body))
    /\ UNCHANGED <<jobs, rc, arrived, smooth>>

Leaves ==
    /\ stage \in Connections /\ stage' = "next"
    /\ jobs' = Tail(jobs)
    /\ left = <<>> \/ rc' = 1
    /\ rc' \in {rc, 1}
    /\ UNCHANGED asked

Ends ==
    /\ Goes("next", "exited")
    /\ jobs = <<>>
    /\ UNCHANGED <<jobs, left, rc, asked>>

(* A tail is shorter, and what it holds has moved up.                       *)
LEMMA TailLemma ==
    ASSUME NEW S, NEW seq \in Seq(S), seq # <<>>
    PROVE  /\ Len(seq) \in Nat \ {0} /\ DOMAIN seq = 1..Len(seq)
           /\ Tail(seq) \in Seq(S) /\ Len(Tail(seq)) = Len(seq) - 1
           /\ DOMAIN Tail(seq) = 1..(Len(seq) - 1)
           /\ \A i \in 1..(Len(seq) - 1) : Tail(seq)[i] = seq[i + 1]
           /\ Head(seq) = seq[1] /\ Head(seq) \in S /\ 1 \in DOMAIN seq
           /\ Tail(seq) # seq
<1> DEFINE rest == Tail(seq)
           size == Len(seq)
<1>1. size \in Nat \ {0} /\ DOMAIN seq = 1..size
  BY EmptySeq
<1>2. /\ rest \in Seq(S) /\ Len(rest) = size - 1
      /\ \A i \in 1..Len(rest) : rest[i] = seq[i + 1]
      /\ Head(seq) \in S
  BY HeadTailProperties
<1>3. Head(seq) = seq[1]
  OBVIOUS
<1> HIDE DEF rest
<1>4. DOMAIN rest = 1..(size - 1)
  <2>1. DOMAIN rest = 1..Len(rest)
    BY <1>2
  <2> QED
    BY <1>2, <2>1
<1>5. 1 \in DOMAIN seq
  <2> HIDE DEF size
  <2> QED
    BY <1>1
<1>6. Len(rest) # Len(seq)
  <2>1. Len(seq) = size
    OBVIOUS
  <2> HIDE DEF size
  <2> QED
    BY <1>1, <1>2, <2>1
<1>7. rest # seq
  BY <1>6
<1> HIDE DEF size
<1> QED
  BY <1>1, <1>2, <1>3, <1>4, <1>5, <1>7, Zenon DEF rest, size

(* The jobs keep their order, and the cursor moves as they do.              *)
LEMMA JobStep ==
    ASSUME ToolTypes, ModeTypes, mode = "tool", JobFacts, args' = args,
           Rests \/ Opens \/ Onward \/ Publishes \/ Leaves \/ Ends
    PROVE  /\ JobFacts' /\ Cursor \in Nat /\ Cursor' \in Nat
           /\ Publishes => Cursor' = Cursor + 1
           /\ ~Publishes => Cursor' >= Cursor
           /\ ~Publishes /\ rc' # 1 => Cursor' = Cursor
<1>1. /\ JobsOf(args') = JobsOf(args) /\ Wanted(args') = Wanted(args)
      /\ Begin' = Begin
  BY DEF Begin
<1> DEFINE N == Len(JobsOf(args))
<1>2. /\ N \in Nat /\ Len(jobs) \in 0..N
      /\ DOMAIN jobs = 1..Len(jobs) /\ DOMAIN left = 1..Len(left) /\ Len(left) \in Nat
      /\ Cursor \in Nat
      /\ Turn = N - Len(jobs) + 1 /\ Turn' = N - Len(jobs') + 1
  <2>1. N \in Nat
    BY LayoutLemma
  <2>2. Cursor \in 0..Len(Wanted(args)) /\ Len(Wanted(args)) \in Nat
    BY CursorLemma
  <2>3. Turn' = N - Len(jobs') + 1
    BY <1>1 DEF Turn
  <2> QED
    BY <2>1, <2>2, <2>3 DEF ToolTypes, JobFacts, Turn
<1> HIDE DEF N
<1>3. ASSUME jobs' = jobs
      PROVE  /\ Turn' = Turn
             /\ Len(jobs') <= Len(JobsOf(args'))
             /\ \A i \in DOMAIN jobs' : jobs'[i] = JobsOf(args')[Turn' - 1 + i]
  <2>1. Turn' = Turn
    BY <1>2, <1>3
  <2> QED
    BY <1>1, <1>3, <2>1 DEF JobFacts
<1>4. CASE Rests
  <2>1. JobFacts'
    BY <1>3, <1>4 DEF Rests, JobFacts
  <2>2. Cursor' = Cursor /\ ~Publishes
    <3>1. Cursor' = Cursor
      BY <1>1, <1>3, <1>4 DEF Rests, Cursor
    <3>2. left # <<>> => Tail(left) # left
      BY TailLemma DEF ToolTypes
    <3> QED
      BY <1>4, <3>1, <3>2 DEF Rests, Publishes
  <2> QED
    BY <1>2, <2>1, <2>2
<1>5. CASE Opens
  <2>1. Head(jobs).slugs \in Seq(Slugs) /\ Begin[Turn] \in Nat
    <3>1. Begin[Turn] \in 0..Len(Wanted(args)) /\ Len(Wanted(args)) \in Nat
      BY <1>5, CursorLemma DEF Opens
    <3> QED
      BY <1>5, <3>1, CursorLemma DEF Opens
  <2>2. JobFacts'
    <3>1. stage' = "connecting" /\ Head(jobs') = Head(jobs) /\ left' = Head(jobs).slugs
      BY <1>5 DEF Opens, Goes
    <3>2. /\ Len(left') <= Len(Head(jobs').slugs)
          /\ \A i \in DOMAIN left' :
                left'[i] = Head(jobs').slugs[Len(Head(jobs').slugs) - Len(left') + i]
      <4> DEFINE slugs == Head(jobs).slugs
      <4>1. left' = slugs /\ Head(jobs').slugs = slugs
        BY <3>1
      <4>2. slugs \in Seq(Slugs)
        BY <2>1
      <4> HIDE DEF slugs
      <4>3. Len(slugs) \in Nat /\ \A i \in DOMAIN slugs : Len(slugs) - Len(slugs) + i = i
        BY <4>2
      <4> QED
        BY <4>1, <4>3
    <3>3. jobs' = jobs
      BY <1>5 DEF Opens
    <3> QED
      BY <1>3, <3>1, <3>2, <3>3 DEF JobFacts
  <2>3. Cursor = Begin[Turn]
    BY <1>5 DEF Opens, Goes, Cursor, Connections
  <2>4. Cursor' = Begin[Turn] + Len(Head(jobs).slugs) - Len(Head(jobs).slugs)
    BY <1>1, <1>3, <1>5 DEF Opens, Goes, Cursor, Connections
  <2>5. Cursor' = Cursor
    BY <2>1, <2>3, <2>4
  <2> QED
    BY <1>2, <1>5, <2>2, <2>5 DEF Opens, Publishes, Goes
<1>6. CASE Onward
  <2>1. JobFacts'
    <3>1. stage \in Connections /\ stage' \in Connections /\ jobs' = jobs /\ left' = left
      BY <1>6 DEF Onward
    <3>2. stage' \in {"infos", "switches", "reading", "closing", "joining"} => left' = <<>>
      BY <1>6 DEF Onward
    <3> QED
      BY <1>3, <3>1, <3>2 DEF JobFacts, Connections
  <2>2. Cursor' = Cursor
    BY <1>1, <1>3, <1>6 DEF Onward, Cursor
  <2>3. ~Publishes
    <3>1. left # <<>> => Tail(left) # left
      BY TailLemma DEF ToolTypes
    <3> QED
      BY <1>6, <3>1 DEF Onward, Publishes
  <2> QED
    BY <1>2, <2>1, <2>2, <2>3
<1>7. CASE Publishes
  <2>1. stage \in Connections /\ stage' \in Connections /\ stage' = "publishing"
        /\ jobs' = jobs
    BY <1>7 DEF Publishes, Connections
  <2>2. /\ Len(left) # 0 /\ Len(left') = Len(left) - 1 /\ DOMAIN left' = 1..(Len(left) - 1)
        /\ \A i \in 1..(Len(left) - 1) : left'[i] = left[i + 1]
    BY <1>7, TailLemma DEF Publishes, ToolTypes
  <2>3. /\ Head(jobs).slugs \in Seq(Slugs) /\ Begin[Turn] \in 0..Len(Wanted(args))
        /\ Len(Wanted(args)) \in Nat
    BY <2>1, CursorLemma DEF ToolTypes
  <2>4. Len(Head(jobs).slugs) \in Nat /\ Begin[Turn] \in Nat
    BY <2>3
  <2>5. /\ Len(left') <= Len(Head(jobs').slugs)
        /\ \A i \in DOMAIN left' :
              left'[i] = Head(jobs').slugs[Len(Head(jobs').slugs) - Len(left') + i]
    <3>1. /\ Len(left) <= Len(Head(jobs).slugs)
          /\ \A i \in DOMAIN left :
                left[i] = Head(jobs).slugs[Len(Head(jobs).slugs) - Len(left) + i]
      BY <2>1 DEF JobFacts
    <3>2. Len(left') <= Len(Head(jobs').slugs)
      BY <1>2, <2>1, <2>2, <2>4, <3>1
    <3>3. ASSUME NEW i \in DOMAIN left'
          PROVE  left'[i] = Head(jobs').slugs[Len(Head(jobs').slugs) - Len(left') + i]
      <4>1. i + 1 \in DOMAIN left /\ left'[i] = left[i + 1]
        BY <1>2, <2>2
      <4>2. Len(Head(jobs).slugs) - Len(left) + (i + 1)
              = Len(Head(jobs').slugs) - Len(left') + i
        <5>1. Head(jobs') = Head(jobs) /\ i \in Nat
          BY <2>1, <2>2
        <5> DEFINE size == Len(Head(jobs).slugs)
        <5>2. size \in Nat /\ Len(Head(jobs').slugs) = size
          BY <2>4, <5>1
        <5> HIDE DEF size
        <5>3. size - Len(left) + (i + 1) = size - Len(left') + i
          BY <1>2, <2>2, <5>1, <5>2
        <5> QED
          BY <5>2, <5>3 DEF size
      <4> QED
        BY <2>1, <3>1, <4>1, <4>2
    <3> QED
      BY <3>2, <3>3
  <2>6. JobFacts'
    BY <1>3, <2>1, <2>5 DEF JobFacts
  <2>7. Cursor = Begin[Turn] + Len(Head(jobs).slugs) - Len(left)
    BY <2>1 DEF Cursor
  <2>8. Cursor' = Begin[Turn] + Len(Head(jobs).slugs) - Len(left')
    BY <1>1, <1>3, <2>1 DEF Cursor
  <2>9. Cursor' = Cursor + 1
    <3> DEFINE begin == Begin[Turn]
               size  == Len(Head(jobs).slugs)
               here  == Len(left)
               there == Len(left')
    <3>1. begin \in Nat /\ size \in Nat /\ here \in Nat /\ there = here - 1
      BY <1>2, <2>2, <2>4
    <3>2. Cursor = begin + size - here /\ Cursor' = begin + size - there
      BY <2>7, <2>8
    <3> HIDE DEF begin, size, here, there
    <3> QED
      BY <3>1, <3>2
  <2> QED
    BY <1>2, <1>7, <2>6, <2>9
<1>8. CASE Leaves
  <2>1. stage \in Connections /\ stage' = "next" /\ jobs' = Tail(jobs) /\ jobs # <<>>
    BY <1>8 DEF Leaves, ToolTypes
  <2>2. /\ Len(jobs) # 0 /\ Len(jobs') = Len(jobs) - 1 /\ DOMAIN jobs' = 1..(Len(jobs) - 1)
        /\ \A i \in 1..(Len(jobs) - 1) : jobs'[i] = jobs[i + 1]
    BY <2>1, TailLemma DEF ToolTypes
  <2>3. Turn' = Turn + 1
    BY <1>2, <2>2
  <2>4. /\ Head(jobs).slugs \in Seq(Slugs) /\ Begin[Turn] \in 0..Len(Wanted(args))
        /\ Begin[Turn + 1] = Begin[Turn] + Len(Head(jobs).slugs)
        /\ Len(Wanted(args)) \in Nat
    BY <2>1, CursorLemma
  <2>5. Len(Head(jobs).slugs) \in Nat /\ Begin[Turn] \in Nat
    BY <2>4
  <2>6. JobFacts'
    <3>1. Len(jobs') <= Len(JobsOf(args'))
      BY <1>1, <1>2, <2>2 DEF N
    <3>2. ASSUME NEW i \in DOMAIN jobs'
          PROVE  jobs'[i] = JobsOf(args')[Turn' - 1 + i]
      <4>1. i + 1 \in DOMAIN jobs /\ jobs'[i] = jobs[i + 1]
        BY <1>2, <2>2
      <4>2. Turn - 1 + (i + 1) = Turn' - 1 + i
        BY <1>2, <2>2, <2>3
      <4>3. jobs[i + 1] = JobsOf(args)[Turn - 1 + (i + 1)]
        BY <4>1 DEF JobFacts
      <4> QED
        BY <1>1, <4>1, <4>2, <4>3
    <3> QED
      BY <2>1, <3>1, <3>2 DEF JobFacts, Connections
  <2>7. Cursor = Begin[Turn] + Len(Head(jobs).slugs) - Len(left)
    BY <2>1 DEF Cursor
  <2>8. Cursor' = Begin[Turn] + Len(Head(jobs).slugs)
    <3>1. Cursor' = Begin'[Turn']
      BY <2>1 DEF Cursor, Connections
    <3> QED
      BY <1>1, <2>3, <2>4, <3>1, Zenon
  <2>9. Cursor' \in Nat /\ Cursor' >= Cursor /\ (Len(left) = 0 => Cursor' = Cursor)
    <3> DEFINE begin == Begin[Turn]
               size  == Len(Head(jobs).slugs)
               here  == Len(left)
    <3>1. begin \in Nat /\ size \in Nat /\ here \in Nat
      BY <1>2, <2>5
    <3>2. Cursor = begin + size - here /\ Cursor' = begin + size
      BY <2>7, <2>8
    <3> HIDE DEF begin, size, here
    <3>3. Cursor' \in Nat /\ Cursor' >= Cursor /\ (here = 0 => Cursor' = Cursor)
      BY <3>1, <3>2
    <3> QED
      BY <3>3 DEF here
  <2>10. rc' # 1 => Len(left) = 0
    BY <1>8 DEF Leaves
  <2> QED
    BY <1>2, <2>1, <2>6, <2>9, <2>10, Zenon DEF Publishes
<1>9. CASE Ends
  <2>1. stage = "next" /\ stage' = "exited" /\ jobs' = jobs /\ jobs = <<>>
    BY <1>9 DEF Ends, Goes
  <2>2. JobFacts'
    BY <1>3, <2>1 DEF JobFacts, Connections
  <2>3. Cursor' = Cursor
    BY <1>1, <1>3, <2>1 DEF Cursor, Connections
  <2> QED
    BY <1>2, <2>1, <2>2, <2>3 DEF Publishes
<1> QED
  BY <1>4, <1>5, <1>6, <1>7, <1>8, <1>9
-----------------------------------------------------------------------------
(* What a step can do to the queue.                                         *)

Keeps ==
    /\ UNCHANGED arrived
    /\ Waiting' \subseteq Waiting
    /\ \A k \in Waiting' : outbox'[k] = outbox[k]
    /\ smooth' => smooth /\ Waiting' = Waiting

Takes ==
    /\ outbox # <<>>
    /\ outbox' = Tail(outbox)
    /\ arrived' = IF link = "up" /\ Head(outbox).topic = "enabled"
                  THEN Append(arrived, Head(outbox)) ELSE arrived
    /\ smooth' => smooth /\ link = "up"

(* An appended value is the last one.                                       *)
LEMMA AppendLemma ==
    ASSUME NEW S, NEW seq \in Seq(S), NEW value \in S
    PROVE  /\ Len(seq) \in Nat /\ DOMAIN seq = 1..Len(seq)
           /\ Append(seq, value) \in Seq(S)
           /\ Len(Append(seq, value)) = Len(seq) + 1
           /\ DOMAIN Append(seq, value) = 1..(Len(seq) + 1)
           /\ \A i \in 1..Len(seq) : Append(seq, value)[i] = seq[i]
           /\ Append(seq, value)[Len(seq) + 1] = value
<1>1. Len(seq) \in Nat /\ DOMAIN seq = 1..Len(seq)
  OBVIOUS
<1>2. /\ Append(seq, value) \in Seq(S) /\ Len(Append(seq, value)) = Len(seq) + 1
      /\ \A i \in 1..Len(seq) : Append(seq, value)[i] = seq[i]
      /\ Append(seq, value)[Len(seq) + 1] = value
  BY AppendProperties
<1>3. DOMAIN Append(seq, value) = 1..Len(Append(seq, value))
  BY <1>2
<1> QED
  BY <1>1, <1>2, <1>3

(* Commands that wait, or are lost, keep their places.                      *)
LEMMA OrderKept ==
    ASSUME OrderFacts, Keeps, args' = args,
           Cursor \in Nat, Cursor' \in Nat, Cursor <= Cursor'
    PROVE  OrderFacts'
<1>1. PICK p \in [DOMAIN arrived -> 1..Cursor], q \in [Waiting -> 1..Cursor] : Places(p, q)
  BY DEF OrderFacts
<1>2. /\ DOMAIN arrived' = DOMAIN arrived /\ arrived' = arrived
      /\ Waiting' \subseteq Waiting /\ \A k \in Waiting' : outbox'[k] = outbox[k]
      /\ Wanted(args') = Wanted(args)
  BY DEF Keeps
<1>3. 1..Cursor \subseteq 1..Cursor'
  OBVIOUS
<1> DEFINE r == [k \in Waiting' |-> q[k]]
<1>4. p \in [DOMAIN arrived' -> 1..Cursor'] /\ r \in [Waiting' -> 1..Cursor']
  BY <1>1, <1>2, <1>3
<1>5. \A k \in Waiting' : r[k] = q[k] /\ k \in Waiting
  BY <1>2
<1> HIDE DEF r
<1>6. /\ \A i \in DOMAIN arrived' : arrived'[i] = Wanted(args')[p[i]]
      /\ \A k \in Waiting' : outbox'[k] = Wanted(args')[r[k]]
      /\ \A i, j \in DOMAIN arrived' : i < j => p[i] < p[j]
      /\ \A k, l \in Waiting' : k < l => r[k] < r[l]
      /\ \A i \in DOMAIN arrived', k \in Waiting' : p[i] < r[k]
  BY <1>1, <1>2, <1>5 DEF Places
<1> QED
  BY <1>4, <1>6 DEF OrderFacts, Places

(* A command that is asked for is the next one that is wanted.              *)
LEMMA OrderAsked ==
    ASSUME OrderFacts, Publishes, args' = args, SessionTypes, ToolTypes, ModeTypes,
           mode = "tool", JobFacts, Cursor' = Cursor + 1
    PROVE  OrderFacts'
<1>1. PICK p \in [DOMAIN arrived -> 1..Cursor], q \in [Waiting -> 1..Cursor] : Places(p, q)
  BY DEF OrderFacts
<1> DEFINE msg == Command(Head(left), Head(jobs).body)
<1>2. /\ Cursor \in Nat /\ Cursor + 1 \in DOMAIN Wanted(args)
      /\ Wanted(args)[Cursor + 1] = msg /\ Wanted(args') = Wanted(args)
      /\ msg.topic = "enabled" /\ msg \in Request
  <2>1. stage \in Connections /\ left # <<>>
    BY DEF Publishes, Connections
  <2>2. /\ Wanted(args) \in Seq(Word) /\ Cursor \in 0..Len(Wanted(args))
        /\ Cursor + 1 \in DOMAIN Wanted(args) /\ Wanted(args)[Cursor + 1] = msg
    BY <2>1, CursorLemma
  <2>3. msg \in Word
    BY <2>2, ElementOfSeq
  <2> QED
    BY <2>2, <2>3 DEF Command, Request
<1>3. arrived' = arrived /\ outbox' = Append(outbox, msg)
  BY DEF Publishes
<1> HIDE DEF msg
<1>4. /\ Len(outbox) \in Nat /\ DOMAIN outbox = 1..Len(outbox)
      /\ DOMAIN outbox' = 1..(Len(outbox) + 1)
      /\ \A k \in 1..Len(outbox) : outbox'[k] = outbox[k]
      /\ outbox'[Len(outbox) + 1] = msg
  BY <1>2, <1>3, AppendLemma DEF SessionTypes
<1>5. /\ Waiting \subseteq 1..Len(outbox)
      /\ Waiting' = Waiting \cup {Len(outbox) + 1}
      /\ \A k \in Waiting : outbox'[k] = outbox[k]
  BY <1>2, <1>4 DEF Waiting
<1> DEFINE r == [k \in Waiting' |-> IF k = Len(outbox) + 1 THEN Cursor + 1 ELSE q[k]]
<1>6. /\ \A k \in Waiting : k \in Waiting' /\ k < Len(outbox) + 1 /\ r[k] = q[k]
                             /\ q[k] \in 1..Cursor
      /\ r[Len(outbox) + 1] = Cursor + 1
  BY <1>4, <1>5
<1>7. /\ p \in [DOMAIN arrived' -> 1..Cursor']
      /\ \A i \in DOMAIN arrived' : p[i] \in 1..Cursor
  BY <1>1, <1>2, <1>3
<1>8. r \in [Waiting' -> 1..Cursor']
  <2>1. Cursor + 1 \in 1..Cursor' /\ \A k \in Waiting : q[k] \in 1..Cursor'
    BY <1>2, <1>6
  <2>2. \A k \in Waiting' : k = Len(outbox) + 1 \/ k \in Waiting
    BY <1>5
  <2> QED
    BY <2>1, <2>2
<1> HIDE DEF r
<1>9. \A k \in Waiting' : outbox'[k] = Wanted(args')[r[k]]
  BY <1>1, <1>2, <1>4, <1>5, <1>6 DEF Places
<1>10. ASSUME NEW k \in Waiting', NEW l \in Waiting', k < l PROVE r[k] < r[l]
  <2>1. CASE l \in Waiting
    <3>1. k # Len(outbox) + 1
      BY <1>4, <1>5, <1>10, <2>1
    <3>2. k \in Waiting
      BY <1>5, <3>1
    <3> QED
      BY <1>1, <1>6, <1>10, <2>1, <3>2 DEF Places
  <2>2. CASE l = Len(outbox) + 1
    <3>1. k \in Waiting
      BY <1>4, <1>5, <1>10, <2>2
    <3> QED
      BY <1>2, <1>6, <2>2, <3>1
  <2> QED
    BY <1>5, <2>1, <2>2
<1>11. ASSUME NEW i \in DOMAIN arrived', NEW k \in Waiting' PROVE p[i] < r[k]
  <2>1. CASE k \in Waiting
    BY <1>1, <1>3, <1>6, <2>1 DEF Places
  <2>2. CASE k = Len(outbox) + 1
    BY <1>2, <1>6, <1>7, <2>2
  <2> QED
    BY <1>5, <2>1, <2>2
<1>12. /\ \A i \in DOMAIN arrived' : arrived'[i] = Wanted(args')[p[i]]
       /\ \A i, j \in DOMAIN arrived' : i < j => p[i] < p[j]
  BY <1>1, <1>2, <1>3 DEF Places
<1> QED
  BY <1>7, <1>8, <1>9, <1>10, <1>11, <1>12 DEF OrderFacts, Places

(* The oldest command is the first to arrive, or lost.                      *)
LEMMA OrderTaken ==
    ASSUME OrderFacts, Takes, args' = args, SessionTypes, ToolTypes,
           Cursor \in Nat, Cursor' \in Nat, Cursor <= Cursor'
    PROVE  OrderFacts'
<1>1. PICK p \in [DOMAIN arrived -> 1..Cursor], q \in [Waiting -> 1..Cursor] : Places(p, q)
  BY DEF OrderFacts
<1>2. /\ Len(outbox) \in Nat \ {0} /\ DOMAIN outbox = 1..Len(outbox)
      /\ DOMAIN outbox' = 1..(Len(outbox) - 1)
      /\ \A k \in 1..(Len(outbox) - 1) : outbox'[k] = outbox[k + 1]
      /\ Head(outbox) = outbox[1] /\ Head(outbox) \in Request /\ 1 \in DOMAIN outbox
  BY TailLemma DEF SessionTypes, Takes
<1>3. \A k \in Waiting' : /\ k \in 1..(Len(outbox) - 1) /\ k + 1 \in Waiting
                          /\ k + 1 > 1 /\ outbox'[k] = outbox[k + 1]
  <2>1. ASSUME NEW k \in Waiting'
        PROVE  /\ k \in 1..(Len(outbox) - 1) /\ k + 1 \in DOMAIN outbox
               /\ k + 1 > 1 /\ outbox'[k] = outbox[k + 1]
    BY <1>2 DEF Waiting
  <2>2. \A k \in Waiting' : outbox'[k].topic = "enabled"
    BY DEF Waiting
  <2> QED
    BY <2>1, <2>2 DEF Waiting
<1>4. Wanted(args') = Wanted(args) /\ 1..Cursor \subseteq 1..Cursor'
  OBVIOUS
<1> DEFINE r == [k \in Waiting' |-> q[k + 1]]
<1>5. r \in [Waiting' -> 1..Cursor']
  BY <1>3, <1>4
<1>6. \A k \in Waiting' : r[k] = q[k + 1] /\ k + 1 \in Waiting
  BY <1>3
<1> HIDE DEF r
<1>7. /\ \A k \in Waiting' : outbox'[k] = Wanted(args')[r[k]]
      /\ \A k, l \in Waiting' : k < l => r[k] < r[l]
  <2>1. ASSUME NEW k \in Waiting', NEW l \in Waiting', k < l PROVE k + 1 < l + 1
    BY <1>2, <1>3, <2>1
  <2> QED
    BY <1>1, <1>3, <1>4, <1>6, <2>1 DEF Places
<1>8. CASE arrived' = arrived
  <2>1. p \in [DOMAIN arrived' -> 1..Cursor']
    BY <1>4, <1>8
  <2>2. /\ \A i \in DOMAIN arrived' : arrived'[i] = Wanted(args')[p[i]]
        /\ \A i, j \in DOMAIN arrived' : i < j => p[i] < p[j]
        /\ \A i \in DOMAIN arrived', k \in Waiting' : p[i] < r[k]
    BY <1>1, <1>4, <1>6, <1>8 DEF Places
  <2> QED
    BY <1>5, <1>7, <2>1, <2>2 DEF OrderFacts, Places
<1>9. CASE arrived' # arrived
  <2>1. arrived' = Append(arrived, Head(outbox)) /\ Head(outbox).topic = "enabled"
    BY <1>9 DEF Takes
  <2>2. 1 \in Waiting
    BY <1>2, <2>1 DEF Waiting
  <2>3. Head(outbox) \in Word
    BY <1>2, <2>1, RequestLemma DEF Request
  <2>4. /\ Len(arrived) \in Nat /\ DOMAIN arrived = 1..Len(arrived)
        /\ DOMAIN arrived' = 1..(Len(arrived) + 1)
        /\ \A i \in 1..Len(arrived) : arrived'[i] = arrived[i]
        /\ arrived'[Len(arrived) + 1] = outbox[1]
    BY <1>2, <2>1, <2>3, AppendLemma DEF ToolTypes
  <2> DEFINE s == [i \in DOMAIN arrived' |-> IF i = Len(arrived) + 1 THEN q[1] ELSE p[i]]
  <2>5. /\ DOMAIN arrived' = DOMAIN arrived \cup {Len(arrived) + 1}
        /\ \A i \in DOMAIN arrived : s[i] = p[i] /\ i < Len(arrived) + 1
        /\ s[Len(arrived) + 1] = q[1]
    BY <2>4
  <2>6. s \in [DOMAIN arrived' -> 1..Cursor']
    <3>1. \A i \in DOMAIN arrived' :
             (IF i = Len(arrived) + 1 THEN q[1] ELSE p[i]) \in 1..Cursor'
      BY <1>4, <2>2, <2>5
    <3> QED
      BY <3>1
  <2> HIDE DEF s
  <2>7. \A i \in DOMAIN arrived' : arrived'[i] = Wanted(args')[s[i]]
    BY <1>1, <1>4, <2>2, <2>4, <2>5 DEF Places
  <2>8. ASSUME NEW i \in DOMAIN arrived', NEW j \in DOMAIN arrived', i < j PROVE s[i] < s[j]
    <3>1. i \in DOMAIN arrived
      BY <2>4, <2>5, <2>8
    <3>2. CASE j \in DOMAIN arrived
      BY <1>1, <2>5, <2>8, <3>1, <3>2 DEF Places
    <3>3. CASE j = Len(arrived) + 1
      BY <1>1, <2>2, <2>5, <3>1, <3>3 DEF Places
    <3> QED
      BY <2>5, <3>2, <3>3
  <2>9. ASSUME NEW i \in DOMAIN arrived', NEW k \in Waiting' PROVE s[i] < r[k]
    <3>1. k + 1 \in Waiting /\ 1 < k + 1 /\ r[k] = q[k + 1]
      BY <1>3, <1>6
    <3>2. CASE i \in DOMAIN arrived
      BY <1>1, <2>5, <3>1, <3>2 DEF Places
    <3>3. CASE i = Len(arrived) + 1
      BY <1>1, <2>2, <2>5, <3>1, <3>3 DEF Places
    <3> QED
      BY <2>5, <3>2, <3>3
  <2> QED
    BY <1>5, <1>7, <2>6, <2>7, <2>8, <2>9 DEF OrderFacts, Places
<1> QED
  BY <1>8, <1>9
LEMMA IntervalLemma ==
    ASSUME NEW a \in Nat, NEW b \in Nat, 1..a = 1..b
    PROVE  a = b
<1>1. a # 0 => a \in 1..b
  OBVIOUS
<1>2. b # 0 => b \in 1..a
  OBVIOUS
<1> QED
  BY <1>1, <1>2

(* While nothing breaks, no command is lost or overtaken.                   *)
LEMMA SmoothStep ==
    ASSUME SmoothFacts, SessionTypes, ToolTypes, ModeTypes, mode = "tool", JobFacts,
           stage = "publishing" => Waiting = DOMAIN outbox,
           Publishes \/ (asked' = asked /\ (Keeps \/ Takes))
    PROVE  SmoothFacts'
<1> SUFFICES ASSUME smooth' PROVE SmoothFacts'
  BY DEF SmoothFacts
<1> DEFINE n == Len(asked) - Len(arrived)
<1>1. smooth
  BY DEF Publishes, Keeps, Takes
<1>2. /\ Len(arrived) \in Nat /\ Len(asked) \in Nat /\ n \in Nat
      /\ n = Len(asked) - Len(arrived) /\ Len(arrived) <= Len(asked)
      /\ DOMAIN arrived = 1..Len(arrived) /\ DOMAIN asked = 1..Len(asked)
  <2>1. /\ Len(arrived) \in Nat /\ Len(asked) \in Nat
        /\ DOMAIN arrived = 1..Len(arrived) /\ DOMAIN asked = 1..Len(asked)
    BY DEF ToolTypes
  <2> QED
    BY <1>1, <2>1 DEF SmoothFacts
<1>6. /\ \A i \in DOMAIN arrived : arrived[i] = asked[i]
      /\ Waiting = 1..n
      /\ \A k \in Waiting : outbox[k] = asked[Len(arrived) + k]
  BY <1>1 DEF SmoothFacts
<1> HIDE DEF n
<1>3. CASE asked' = asked /\ Keeps
  <2>1. arrived' = arrived /\ Waiting' = Waiting /\ \A k \in Waiting' : outbox'[k] = outbox[k]
    BY <1>3 DEF Keeps
  <2>2. \A k \in Waiting' : outbox'[k] = asked'[Len(arrived') + k]
    BY <1>3, <1>6, <2>1
  <2>3. Waiting' = 1..(Len(asked') - Len(arrived'))
    BY <1>2, <1>3, <1>6, <2>1
  <2> QED
    BY <1>2, <1>3, <1>6, <2>1, <2>2, <2>3 DEF SmoothFacts
<1>4. CASE Publishes
  <2> DEFINE msg == Command(Head(left), Head(jobs).body)
  <2>1. msg \in Word /\ msg \in Request /\ msg.topic = "enabled"
    <3>1. stage \in Connections /\ left # <<>>
      BY <1>4 DEF Publishes, Connections
    <3>2. Cursor + 1 \in DOMAIN Wanted(args) /\ msg = Wanted(args)[Cursor + 1]
          /\ Wanted(args) \in Seq(Word)
      BY <3>1, CursorLemma
    <3>3. msg \in Word
      BY <3>2, ElementOfSeq
    <3> QED
      BY <3>3 DEF Request, Command
  <2>2. /\ arrived' = arrived /\ asked' = Append(asked, msg)
        /\ outbox' = Append(outbox, msg) /\ Waiting = DOMAIN outbox
    BY <1>4 DEF Publishes
  <2> HIDE DEF msg
  <2>3. /\ Len(asked') = Len(asked) + 1 /\ asked'[Len(asked) + 1] = msg
        /\ \A i \in 1..Len(asked) : asked'[i] = asked[i]
    BY <2>1, <2>2, AppendLemma DEF ToolTypes
  <2>4. /\ Len(outbox) \in Nat /\ DOMAIN outbox = 1..Len(outbox)
        /\ DOMAIN outbox' = 1..(Len(outbox) + 1)
        /\ \A k \in 1..Len(outbox) : outbox'[k] = outbox[k]
        /\ outbox'[Len(outbox) + 1] = msg
    BY <2>1, <2>2, AppendLemma DEF SessionTypes
  <2>5. Len(outbox) = n
    <3>1. 1..Len(outbox) = 1..n
      BY <1>6, <2>2, <2>4
    <3> QED
      BY <1>2, <2>4, <3>1, IntervalLemma
  <2>6. Waiting' = 1..(n + 1)
    <3>1. \A k \in 1..n : outbox'[k].topic = "enabled"
      <4>1. \A k \in Waiting : outbox[k].topic = "enabled"
        BY DEF Waiting
      <4> QED
        BY <1>6, <2>4, <2>5, <4>1
    <3>2. \A k \in DOMAIN outbox' : k \in 1..n \/ k = n + 1
      BY <1>2, <2>4, <2>5
    <3> QED
      BY <2>1, <2>4, <2>5, <3>1, <3>2 DEF Waiting
  <2>7. Len(asked') - Len(arrived') = n + 1 /\ Len(arrived') <= Len(asked')
    <3>1. Len(asked') = Len(asked) + 1 /\ Len(arrived') = Len(arrived)
      BY <2>2, <2>3
    <3> QED
      BY <1>2, <3>1
  <2>8. \A i \in DOMAIN arrived' : arrived'[i] = asked'[i]
    <3>1. \A i \in DOMAIN arrived : i \in 1..Len(asked)
      BY <1>2
    <3> QED
      BY <1>6, <2>2, <2>3, <3>1
  <2>9. ASSUME NEW k \in 1..(n + 1) PROVE outbox'[k] = asked'[Len(arrived') + k]
    <3>1. CASE k \in 1..n
      <4>1. Len(arrived) + k \in 1..Len(asked)
        BY <1>2, <3>1
      <4>2. outbox'[k] = outbox[k] /\ outbox[k] = asked[Len(arrived) + k]
        BY <1>6, <2>4, <2>5, <3>1
      <4> QED
        BY <2>2, <2>3, <4>1, <4>2
    <3>2. CASE k = n + 1
      <4>1. Len(arrived) + k = Len(asked) + 1
        BY <1>2, <3>2
      <4> QED
        BY <2>2, <2>3, <2>4, <2>5, <3>2, <4>1
    <3>3. k \in 1..n \/ k = n + 1
      BY <1>2
    <3> QED
      BY <3>1, <3>2, <3>3
  <2> QED
    BY <2>6, <2>7, <2>8, <2>9 DEF SmoothFacts
<1>5. CASE asked' = asked /\ Takes
  <2>1. /\ Len(outbox) \in Nat \ {0} /\ DOMAIN outbox = 1..Len(outbox)
        /\ DOMAIN outbox' = 1..(Len(outbox) - 1)
        /\ \A k \in 1..(Len(outbox) - 1) : outbox'[k] = outbox[k + 1]
        /\ Head(outbox) = outbox[1] /\ Head(outbox) \in Request /\ 1 \in DOMAIN outbox
    BY <1>5, TailLemma DEF SessionTypes, Takes
  <2>2. /\ arrived' = IF Head(outbox).topic = "enabled"
                      THEN Append(arrived, Head(outbox)) ELSE arrived
    BY <1>5 DEF Takes
  <2>3. Waiting' = 1..(n - 1) /\ \A k \in Waiting' : outbox'[k] = outbox[k + 1] /\ k + 1 \in Waiting
    <3>1. ASSUME NEW k \in Waiting'
          PROVE  k + 1 \in Waiting /\ k \in Nat \ {0} /\ outbox'[k] = outbox[k + 1]
      <4>1. k \in 1..(Len(outbox) - 1) /\ k + 1 \in DOMAIN outbox /\ outbox'[k] = outbox[k + 1]
        BY <2>1 DEF Waiting
      <4>2. outbox'[k].topic = "enabled"
        BY DEF Waiting
      <4> QED
        BY <2>1, <4>1, <4>2 DEF Waiting
    <3>2. ASSUME NEW k \in 1..(n - 1) PROVE k \in Waiting'
      <4>1. k + 1 \in Waiting
        <5>1. k + 1 \in 1..n
          BY <1>2
        <5> QED
          BY <1>6, <5>1
      <4>2. k + 1 \in 1..Len(outbox) /\ outbox[k + 1].topic = "enabled"
        BY <2>1, <4>1 DEF Waiting
      <4>3. k \in 1..(Len(outbox) - 1)
        <5>1. k \in Nat \ {0}
          BY <1>2
        <5> QED
          BY <2>1, <4>2, <5>1
      <4> QED
        BY <2>1, <4>2, <4>3 DEF Waiting
    <3>3. \A k \in Waiting' : k \in 1..(n - 1)
      BY <1>2, <1>6, <3>1
    <3> QED
      BY <3>1, <3>2, <3>3
  <2>4. CASE Head(outbox).topic = "enabled"
    <3>1. 1 \in Waiting
      BY <2>1, <2>4 DEF Waiting
    <3>2. n >= 1
      <4>1. 1 \in 1..n
        BY <1>6, <3>1
      <4> QED
        BY <1>2, <4>1
    <3>3. Head(outbox) \in Word
      BY <2>1, <2>4, RequestLemma DEF Request
    <3>4. /\ Len(arrived') = Len(arrived) + 1
          /\ DOMAIN arrived' = 1..(Len(arrived) + 1)
          /\ \A i \in 1..Len(arrived) : arrived'[i] = arrived[i]
          /\ arrived'[Len(arrived) + 1] = outbox[1]
      BY <2>1, <2>2, <2>4, <3>3, AppendLemma DEF ToolTypes
    <3>5. outbox[1] = asked[Len(arrived) + 1]
      BY <1>6, <3>1
    <3>6. ASSUME NEW i \in DOMAIN arrived' PROVE arrived'[i] = asked'[i]
      <4>1. i \in 1..Len(arrived) \/ i = Len(arrived) + 1
        BY <1>2, <3>4
      <4> QED
        BY <1>2, <1>5, <1>6, <3>4, <3>5, <4>1
    <3>7. Len(arrived') <= Len(asked') /\ Len(asked') - Len(arrived') = n - 1
      BY <1>2, <1>5, <3>2, <3>4
    <3>8. ASSUME NEW k \in Waiting' PROVE outbox'[k] = asked'[Len(arrived') + k]
      <4>1. k \in 1..(n - 1)
        BY <2>3
      <4>2. Len(arrived) + (k + 1) = Len(arrived') + k
        BY <1>2, <3>4, <4>1
      <4> QED
        BY <1>5, <1>6, <2>3, <4>2
    <3> QED
      BY <2>3, <3>6, <3>7, <3>8 DEF SmoothFacts
  <2>5. CASE Head(outbox).topic # "enabled"
    <3>1. 1 \notin Waiting
      BY <2>1, <2>5 DEF Waiting
    <3>2. n = 0
      <4>1. 1 \notin 1..n
        BY <1>6, <3>1
      <4>2. n \in Nat
        BY <1>2
      <4> QED
        BY <4>1, <4>2
    <3>3. \A k \in Waiting' : FALSE
      BY <2>3, <3>2
    <3>4. Waiting' = 1..(Len(asked') - Len(arrived'))
      <4>1. Len(asked') - Len(arrived') = 0
        BY <1>2, <1>5, <2>2, <2>5, <3>2
      <4>2. Waiting' = 1..0
        BY <3>3
      <4> QED
        BY <4>1, <4>2
    <3>5. arrived' = arrived /\ asked' = asked
      BY <1>5, <2>2, <2>5
    <3> QED
      BY <1>2, <1>6, <3>3, <3>4, <3>5 DEF SmoothFacts
  <2> QED
    BY <2>4, <2>5
<1> QED
  BY <1>3, <1>4, <1>5

(* A tool that gives nothing up asks for what is wanted, in its order.      *)
LEMMA AskedStep ==
    ASSUME AskedFacts, ToolTypes, ModeTypes, mode = "tool", JobFacts, args' = args,
           \/ Publishes /\ Cursor' = Cursor + 1
           \/ asked' = asked /\ rc' \in {rc, 1} /\ (rc' # 1 => Cursor' = Cursor)
    PROVE  AskedFacts'
<1> SUFFICES ASSUME rc' = 0 PROVE AskedFacts'
  BY DEF AskedFacts
<1>1. rc = 0
  BY DEF Publishes
<1>2. /\ Len(asked) = Cursor
      /\ \A i \in DOMAIN asked : asked[i] = Wanted(args)[i]
      /\ Wanted(args') = Wanted(args)
  BY <1>1 DEF AskedFacts
<1>3. CASE asked' = asked /\ Cursor' = Cursor
  BY <1>2, <1>3 DEF AskedFacts
<1>4. CASE Publishes /\ Cursor' = Cursor + 1
  <2> DEFINE msg == Command(Head(left), Head(jobs).body)
  <2>1. /\ Cursor \in Nat /\ msg = Wanted(args)[Cursor + 1] /\ msg \in Word
    <3>1. stage \in Connections /\ left # <<>>
      BY <1>4 DEF Publishes, Connections
    <3>2. /\ Cursor \in 0..Len(Wanted(args)) /\ Wanted(args) \in Seq(Word)
          /\ Cursor + 1 \in DOMAIN Wanted(args) /\ msg = Wanted(args)[Cursor + 1]
      BY <3>1, CursorLemma
    <3> QED
      BY <3>2, ElementOfSeq
  <2>2. asked' = Append(asked, msg)
    BY <1>4 DEF Publishes
  <2> HIDE DEF msg
  <2>3. /\ Len(asked') = Cursor + 1 /\ DOMAIN asked' = 1..(Cursor + 1)
        /\ \A i \in 1..Cursor : asked'[i] = asked[i]
        /\ asked'[Cursor + 1] = msg /\ DOMAIN asked = 1..Cursor
    BY <1>2, <2>1, <2>2, AppendLemma DEF ToolTypes
  <2>4. \A i \in DOMAIN asked' : i \in 1..Cursor \/ i = Cursor + 1
    BY <2>1, <2>3
  <2>5. \A i \in DOMAIN asked' : asked'[i] = Wanted(args')[i]
    BY <1>2, <2>1, <2>3, <2>4
  <2> QED
    BY <1>4, <2>3, <2>5 DEF AskedFacts
<1> QED
  BY <1>1, <1>3, <1>4
-----------------------------------------------------------------------------
(* The steps of the tool.                                                   *)

(* A new request is the last one; one that is no command changes nothing    *)
(* about the commands that wait.                                            *)
LEMMA AskStep ==
    ASSUME SessionTypes, NEW msg \in Request,
           Len(outbox) < MaxOutbox, outbox' = Append(outbox, msg)
    PROVE  /\ outbox' \in Seq(Request) /\ Len(outbox') <= MaxOutbox
           /\ DOMAIN outbox = 1..Len(outbox) /\ Len(outbox) \in Nat
           /\ DOMAIN outbox' = 1..(Len(outbox) + 1) /\ Len(outbox') = Len(outbox) + 1
           /\ \A k \in DOMAIN outbox : outbox'[k] = outbox[k]
           /\ outbox'[Len(outbox) + 1] = msg
           /\ msg.topic # "enabled" => Waiting' = Waiting
           /\ msg.topic = "enabled" /\ Waiting = DOMAIN outbox => Waiting' = DOMAIN outbox'
<1>1. /\ Len(outbox) \in Nat /\ DOMAIN outbox = 1..Len(outbox)
      /\ outbox' \in Seq(Request) /\ Len(outbox') = Len(outbox) + 1
      /\ DOMAIN outbox' = 1..(Len(outbox) + 1)
      /\ \A k \in 1..Len(outbox) : outbox'[k] = outbox[k]
      /\ outbox'[Len(outbox) + 1] = msg
  BY AppendLemma DEF SessionTypes
<1>2. Len(outbox') <= MaxOutbox
  BY <1>1, BoundsAssumption
<1>3. /\ \A k \in DOMAIN outbox : k \in DOMAIN outbox'
      /\ \A k \in DOMAIN outbox' : k \in DOMAIN outbox \/ k = Len(outbox) + 1
  BY <1>1
<1>4. msg.topic # "enabled" => Waiting' = Waiting
  BY <1>1, <1>3 DEF Waiting
<1>5. msg.topic = "enabled" /\ Waiting = DOMAIN outbox => Waiting' = DOMAIN outbox'
  BY <1>1, <1>3 DEF Waiting
<1> QED
  BY <1>1, <1>2, <1>4, <1>5

(* What the tool publishes is a command.                                    *)
LEMMA PublishLemma ==
    ASSUME SessionTypes, ToolTypes, JobFacts, PublishNext, ModeTypes, mode = "tool"
    PROVE  /\ Publishes
           /\ Command(Head(left), Head(jobs).body) \in Request
           /\ Command(Head(left), Head(jobs).body) \in Word
           /\ Len(outbox) < MaxOutbox
<1>1. stage \in Connections /\ left # <<>> /\ task # "ended"
  BY DEF PublishNext, Connections, Asks
<1>2. /\ Wanted(args) \in Seq(Word) /\ Cursor + 1 \in DOMAIN Wanted(args)
      /\ Command(Head(left), Head(jobs).body) = Wanted(args)[Cursor + 1]
  BY <1>1, CursorLemma
<1>3. Command(Head(left), Head(jobs).body) \in Word
  BY <1>2, ElementOfSeq
<1>4. Len(outbox) < MaxOutbox /\ outbox' = Append(outbox, Command(Head(left), Head(jobs).body))
  BY <1>1 DEF PublishNext, Asks, Mqtt!Request
<1>5. Publishes
  BY <1>4 DEF PublishNext, Publishes
<1> QED
  BY <1>3, <1>4, <1>5 DEF Request

Closing == Joins \/ JoinTimesOut
Failing == ConnectFails \/ RequestFails
Passing == Connected \/ StopsReading \/ AllPublished \/ Finished
Asking  == SubscribeInfos \/ SubscribeSwitches \/ AskDisconnect

(* What the groups of actions have in common.                               *)
LEMMA LeaveLemma ==
    ASSUME Closing \/ Failing
    PROVE  /\ stage \in {"connecting", "infos", "switches", "publishing", "joining"}
           /\ stage' = "next" /\ jobs' = Tail(jobs) /\ left' \in {left, <<>>}
           /\ task' = "none" /\ state' = "Connecting" /\ flag' = FALSE /\ link' = "down"
           /\ outbox' = <<>> /\ incoming' = <<>>
           /\ UNCHANGED <<net, sessions, retained, listing, asked, arrived>>
           /\ leaked' \in {leaked, leaked + 1} /\ rc' \in {rc, 1} /\ smooth' \in {smooth, FALSE}
<1>1. CASE Closing
  BY <1>1 DEF Closing, Joins, JoinTimesOut, Closes, Goes, Mqtt!Abandoned, Mqtt!Vanish, storyVars
<1>2. CASE Failing
  <2>1. GivesUp /\ stage \in {"connecting", "infos", "switches", "publishing"}
    BY <1>2 DEF Failing, ConnectFails, RequestFails
  <2> QED
    BY <2>1 DEF GivesUp, Mqtt!Abandoned, Mqtt!Vanish, storyVars
<1> QED
  BY <1>1, <1>2

LEMMA PassLemma ==
    ASSUME Passing
    PROVE  /\ UNCHANGED <<task, state, link, outbox, net, sessions, retained, incoming>>
           /\ UNCHANGED <<jobs, left, leaked, rc, listing, smooth, asked, arrived>>
           /\ flag' \in {flag, TRUE}
           /\ \/ stage = "connecting" /\ state = "Connected"
                 /\ stage' = IF Head(jobs).kind = "list" THEN "infos" ELSE "publishing"
              \/ stage = "reading" /\ stage' = "closing"
              \/ stage = "publishing" /\ left = <<>> /\ stage' = "closing"
              \/ stage = "next" /\ jobs = <<>> /\ stage' = "exited"
<1>1. CASE Connected
  BY <1>1 DEF Connected, Goes, linkVars, storyVars
<1>2. CASE StopsReading
  BY <1>2 DEF StopsReading, Goes, Mqtt!RaiseFlag, storyVars
<1>3. CASE AllPublished
  BY <1>3 DEF AllPublished, Goes, Mqtt!RaiseFlag, storyVars
<1>4. CASE Finished
  BY <1>4 DEF Finished, Goes, linkVars, storyVars
<1> QED
  BY <1>1, <1>2, <1>3, <1>4 DEF Passing

LEMMA AskingLemma ==
    ASSUME SessionTypes, ToolTypes, QueueFacts, Asking
    PROVE  /\ UNCHANGED <<task, state, flag, link, net, sessions, retained, incoming>>
           /\ UNCHANGED <<jobs, left, leaked, rc, listing, smooth, asked, arrived>>
           /\ \/ stage = "infos" /\ stage' = "switches"
              \/ stage = "switches" /\ stage' = "reading"
              \/ stage = "closing" /\ stage' = "joining"
           /\ outbox' \in Seq(Request) /\ Len(outbox') <= MaxOutbox
           /\ Waiting' = Waiting /\ \A k \in Waiting : outbox'[k] = outbox[k]
           /\ task = "ended" => outbox' = <<>>
           /\ \A k \in DOMAIN outbox' : outbox'[k] = Bye =>
                 k = Len(outbox') /\ stage' = "joining"
<1> DEFINE Added(msg) ==
             \/ Len(outbox) < MaxOutbox /\ outbox' = Append(outbox, msg) /\ task # "ended"
             \/ task = "ended" /\ outbox' = outbox
<1>1. /\ UNCHANGED <<task, state, flag, link, net, sessions, retained, incoming>>
      /\ UNCHANGED <<jobs, left, leaked, rc, listing, smooth, asked, arrived>>
      /\ \/ stage = "infos" /\ stage' = "switches" /\ Added(SubInfo)
         \/ stage = "switches" /\ stage' = "reading" /\ Added(SubEnabled)
         \/ stage = "closing" /\ stage' = "joining" /\ Added(Bye)
  <2>1. CASE SubscribeInfos
    BY <2>1 DEF SubscribeInfos, Asks, Goes, Mqtt!Request, SubInfo, storyVars
  <2>2. CASE SubscribeSwitches
    BY <2>2 DEF SubscribeSwitches, Asks, Goes, Mqtt!Request, SubEnabled, storyVars
  <2>3. CASE AskDisconnect
    BY <2>3 DEF AskDisconnect, Goes, Mqtt!Request, Bye, storyVars
  <2> QED
    BY <2>1, <2>2, <2>3 DEF Asking
<1>2. PICK msg \in {SubInfo, SubEnabled, Bye} :
         Added(msg) /\ (msg = Bye => stage' = "joining")
  <2>1. SubInfo # Bye /\ SubEnabled # Bye
    BY RequestLemma
  <2> QED
    BY <1>1, <2>1
<1>3. msg \in Request /\ msg.topic # "enabled"
  BY RequestLemma
<1>4. stage \in {"infos", "switches", "closing"}
  BY <1>1
<1>5. \A k \in DOMAIN outbox : outbox[k] # Bye
  <2>1. \A k \in DOMAIN outbox : outbox[k] = Bye => stage = "joining"
    BY DEF QueueFacts
  <2> QED
    BY <1>4, <2>1
<1>6. CASE Len(outbox) < MaxOutbox /\ outbox' = Append(outbox, msg) /\ task # "ended"
  <2>1. /\ outbox' \in Seq(Request) /\ Len(outbox') <= MaxOutbox
        /\ DOMAIN outbox = 1..Len(outbox) /\ Len(outbox) \in Nat
        /\ DOMAIN outbox' = 1..(Len(outbox) + 1) /\ Len(outbox') = Len(outbox) + 1
        /\ \A k \in DOMAIN outbox : outbox'[k] = outbox[k]
        /\ outbox'[Len(outbox) + 1] = msg
        /\ Waiting' = Waiting
    BY <1>3, <1>6, AskStep
  <2>2. \A k \in DOMAIN outbox' : k \in DOMAIN outbox \/ k = Len(outbox')
    BY <2>1
  <2>3. \A k \in DOMAIN outbox' : outbox'[k] = Bye => k = Len(outbox') /\ stage' = "joining"
    BY <1>2, <1>5, <2>1, <2>2
  <2>4. \A k \in Waiting : outbox'[k] = outbox[k]
    BY <2>1 DEF Waiting
  <2> QED
    BY <1>1, <1>6, <2>1, <2>3, <2>4, Zenon
<1>7. CASE task = "ended" /\ outbox' = outbox
  <2>1. outbox = <<>>
    BY <1>7 DEF QueueFacts
  <2>2. Waiting' = Waiting
    BY <1>7 DEF Waiting
  <2> QED
    BY <1>1, <1>5, <1>7, <2>1, <2>2 DEF SessionTypes
<1> QED
  BY <1>2, <1>6, <1>7
(* While the connection is not up, nothing is waiting that was not lost     *)
(* already.                                                                 *)
LEMMA DownLemma ==
    ASSUME QueueFacts, stage \in Connections, smooth, link # "up"
    PROVE  outbox = <<>>
  BY DEF QueueFacts, Connections

(* What the event task leaves alone, and what it does to the queue.         *)
LEMMA EventMoves ==
    ASSUME SessionTypes, ToolTypes, QueueFacts, CliEventTask
    PROVE  /\ stage \in Connections /\ UNCHANGED <<toolVars, smooth, asked, others>>
           /\ Keeps \/ Takes
<1>1. /\ stage \in Connections /\ UNCHANGED <<toolVars, smooth, asked, others>>
      /\ Mqtt!EventTask(Me)
      /\ arrived' = IF link = "up" /\ outbox' # outbox /\ Head(outbox).topic = "enabled"
                    THEN Append(arrived, Head(outbox)) ELSE arrived
  BY DEF CliEventTask, ToolTypes
<1>2. CASE outbox' = outbox
  <2>1. Waiting' = Waiting
    BY <1>2 DEF Waiting
  <2> QED
    BY <1>1, <1>2, <2>1 DEF Keeps
<1>3. CASE Mqtt!Connect(Me) \/ Mqtt!Retries
  BY <1>2, <1>3 DEF Mqtt!Connect, Mqtt!ConnAck, Mqtt!Retries, Mqtt!Wake
<1>4. CASE Mqtt!ConnectionFails
  <2>1. link # "up" /\ outbox' \in {outbox, <<>>}
    BY <1>4 DEF Mqtt!ConnectionFails, Mqtt!PollFails
  <2>2. CASE outbox' = <<>> /\ outbox' # outbox
    <3>1. ~smooth'
      BY <1>1, <2>1, <2>2, DownLemma
    <3>2. Waiting' = {}
      BY <2>2 DEF Waiting
    <3>3. arrived' = arrived
      BY <1>1, <2>1
    <3>4. Waiting' \subseteq Waiting /\ \A k \in Waiting' : outbox'[k] = outbox[k]
      BY <3>2
    <3> QED
      BY <1>1, <3>1, <3>3, <3>4 DEF Keeps
  <2> QED
    BY <1>1, <1>2, <2>1, <2>2
<1>5. CASE Mqtt!Transmit(Me) \/ Mqtt!TransmitInVain
  <2>1. outbox # <<>> /\ outbox' = Tail(outbox)
    BY <1>5 DEF Mqtt!Transmit, Mqtt!TransmitInVain, Mqtt!Send
  <2>2. outbox' # outbox
    BY <2>1, TailLemma DEF SessionTypes
  <2>3. smooth => link = "up"
    BY <1>1, <2>1, DownLemma
  <2> QED
    BY <1>1, <2>1, <2>2, <2>3 DEF Takes
<1> QED
  BY <1>1, <1>3, <1>4, <1>5 DEF Mqtt!EventTask

Outside ==
    \/ LeakedConnects \/ CliCut \/ CliMend \/ CliExpires
    \/ \E msg \in OthersWords : OthersPublish(msg)

(* What the world around leaves alone.                                      *)
LEMMA OutsideLemma ==
    ASSUME ToolTypes, Outside
    PROVE  /\ UNCHANGED <<toolVars, task, state, outbox, asked, arrived>>
           /\ smooth' => smooth /\ link' = link
           /\ smooth' \in BOOLEAN
           /\ link' # link => link = "up" /\ link' = "broken"
<1>1. smooth \in BOOLEAN
  BY DEF ToolTypes
<1>2. CASE LeakedConnects
  BY <1>2 DEF LeakedConnects, Mqtt!Break
<1>3. CASE CliCut
  <2>1. UNCHANGED <<toolVars, asked, arrived>> /\ smooth' = (smooth /\ link # "up")
    BY <1>3 DEF CliCut
  <2>2. UNCHANGED <<task, state, outbox>>
    BY <1>3 DEF CliCut, Mqtt!Cut, Mqtt!Break, Mqtt!sessionVars
  <2>3. link' = IF link = "up" THEN "broken" ELSE link
    BY <1>3 DEF CliCut, Mqtt!Cut, Mqtt!Break, Mqtt!sessionVars
  <2>4. smooth' \in BOOLEAN /\ (smooth' => smooth /\ link # "up")
    BY <2>1
  <2> QED
    BY <2>1, <2>2, <2>3, <2>4
<1>4. CASE CliMend
  <2>1. UNCHANGED <<toolVars, task, state, link, outbox, smooth, asked, arrived>>
    BY <1>4 DEF CliMend, Mqtt!Mend, Mqtt!sessionVars, storyVars
  <2> QED
    BY <1>1, <2>1
<1>5. CASE CliExpires
  <2>1. UNCHANGED <<toolVars, task, state, link, outbox, smooth, asked, arrived>>
    BY <1>5 DEF CliExpires, storyVars
  <2> QED
    BY <1>1, <2>1
<1>6. ASSUME NEW msg \in OthersWords, OthersPublish(msg)
      PROVE  UNCHANGED <<toolVars, task, state, link, outbox, smooth, asked, arrived>>
  BY <1>6 DEF OthersPublish, Mqtt!OthersPublish, Mqtt!sessionVars
<1>7. CASE \E msg \in OthersWords : OthersPublish(msg)
  <2>1. UNCHANGED <<toolVars, task, state, link, outbox, smooth, asked, arrived>>
    BY <1>6, <1>7
  <2> QED
    BY <1>1, <2>1
<1> QED
  BY <1>2, <1>3, <1>4, <1>5, <1>7 DEF Outside

(* Every step is one of these.                                              *)
LEMMA StepCases ==
    ASSUME [MainNext]_mainVars
    PROVE  /\ args' = args /\ mode' = mode
           /\ \/ ConnectFirst \/ Closing \/ Failing \/ Passing \/ Asking
              \/ PublishNext \/ Reads \/ CliEventTask \/ Outside
              \/ UNCHANGED mainVars
  BY DEF MainNext, mainVars, CliNext, Closing, Failing, Passing, Asking, Outside

(* What every step does to the jobs and to the queue.                       *)
LEMMA StepMoves ==
    ASSUME MainTypes, QueueFacts, mode = "tool", JobFacts, [MainNext]_mainVars
    PROVE  /\ Rests \/ Opens \/ Onward \/ Publishes \/ Leaves \/ Ends
           /\ Publishes \/ Keeps \/ Takes
<1> USE DEF MainTypes
<1>1. (UNCHANGED <<outbox, arrived>> /\ (smooth' => smooth)) => Keeps
  BY DEF Keeps, Waiting
<1>2. UNCHANGED <<toolVars, asked>> => Rests
  BY DEF toolVars, Rests
<1>3. CASE ConnectFirst
  <2>1. Opens
    BY <1>3 DEF ConnectFirst, Opens, storyVars
  <2>2. Waiting' = {} /\ Waiting = {}
    <3>1. outbox' = <<>> /\ outbox = <<>>
      BY <1>3 DEF ConnectFirst, Goes, Mqtt!Open, Mqtt!Spawn, QueueFacts
    <3> QED
      BY <3>1 DEF Waiting
  <2>3. Keeps
    BY <1>3, <2>2 DEF ConnectFirst, Keeps, storyVars
  <2> QED
    BY <2>1, <2>3
<1>4. CASE Closing \/ Failing
  <2>1. /\ stage \in {"connecting", "infos", "switches", "publishing", "joining"}
        /\ stage' = "next" /\ jobs' = Tail(jobs) /\ outbox' = <<>>
        /\ UNCHANGED <<asked, arrived>>
        /\ rc' \in {rc, 1} /\ smooth' \in {smooth, FALSE}
    BY <1>4, LeaveLemma
  <2>2. left = <<>> \/ rc' = 1
    <3>1. CASE Closing
      BY <3>1 DEF Closing, Joins, JoinTimesOut, Closes, Goes, JobFacts
    <3>2. CASE Failing
      BY <3>2 DEF Failing, ConnectFails, RequestFails, GivesUp
    <3> QED
      BY <1>4, <3>1, <3>2
  <2>3. Leaves
    BY <2>1, <2>2 DEF Leaves, Connections
  <2>4. Waiting' = {}
    BY <2>1 DEF Waiting
  <2>5. smooth' => outbox = <<>>
    <3>1. CASE Joins \/ RequestFails
      BY <3>1 DEF Joins, RequestFails, QueueFacts
    <3>2. CASE JoinTimesOut
      BY <3>2 DEF JoinTimesOut
    <3>3. CASE ConnectFails
      BY <3>3 DEF ConnectFails, QueueFacts
    <3> QED
      BY <1>4, <3>1, <3>2, <3>3 DEF Closing, Failing
  <2>6. smooth' => smooth
    BY <2>1
  <2>7. outbox = <<>> => Waiting = {}
    BY DEF Waiting
  <2>8. Keeps
    BY <2>1, <2>4, <2>5, <2>6, <2>7 DEF Keeps
  <2> QED
    BY <2>3, <2>8
<1>5. CASE Passing
  <2>1. /\ UNCHANGED <<outbox, jobs, left, rc, smooth, asked, arrived>>
        /\ \/ stage = "connecting" /\ state = "Connected"
              /\ stage' = IF Head(jobs).kind = "list" THEN "infos" ELSE "publishing"
           \/ stage = "reading" /\ stage' = "closing"
           \/ stage = "publishing" /\ left = <<>> /\ stage' = "closing"
           \/ stage = "next" /\ jobs = <<>> /\ stage' = "exited"
    BY <1>5, PassLemma
  <2>2. Keeps
    BY <1>1, <2>1
  <2>3. CASE stage = "next"
    <3>1. stage' = "exited" /\ jobs = <<>>
      BY <2>1, <2>3
    <3>2. Ends
      BY <2>1, <2>3, <3>1 DEF Ends, Goes
    <3> QED
      BY <2>2, <3>2
  <2>4. CASE stage = "connecting"
    <3>1. jobs # <<>> /\ jobs \in Seq(Task)
      BY <2>4 DEF ToolTypes, Connections
    <3>2. Head(jobs) \in Task
      BY <3>1, TailLemma
    <3>3. Head(jobs).kind = "list" => left = <<>>
      <4>1. ASSUME Head(jobs).kind = "list" PROVE Len(left) = 0
        <5>1. Len(left) <= Len(Head(jobs).slugs)
          BY <2>4 DEF JobFacts, Connections
        <5>2. Head(jobs).slugs = <<>>
          BY <3>2, <4>1, TaskLemma
        <5> QED
          BY <5>1, <5>2 DEF ToolTypes
      <4> QED
        BY <4>1, EmptySeq DEF ToolTypes
    <3>4. Onward
      BY <2>1, <2>4, <3>3 DEF Onward, Connections
    <3> QED
      BY <2>2, <3>4
  <2>5. CASE stage \in {"reading", "publishing"}
    <3>1. left = <<>>
      BY <2>1, <2>5 DEF JobFacts
    <3>2. Onward
      BY <2>1, <2>5, <3>1 DEF Onward, Connections
    <3> QED
      BY <2>2, <3>2
  <2> QED
    BY <2>1, <2>2, <2>3, <2>4, <2>5
<1>6. CASE Asking
  <2>1. /\ UNCHANGED <<jobs, left, rc, smooth, asked, arrived>>
        /\ \/ stage = "infos" /\ stage' = "switches"
           \/ stage = "switches" /\ stage' = "reading"
           \/ stage = "closing" /\ stage' = "joining"
        /\ Waiting' = Waiting /\ \A k \in Waiting : outbox'[k] = outbox[k]
    BY <1>6, AskingLemma
  <2>2. left = <<>>
    BY <2>1 DEF JobFacts
  <2>3. Onward
    BY <2>1, <2>2 DEF Onward, Connections
  <2>4. Keeps
    BY <2>1 DEF Keeps
  <2> QED
    BY <2>3, <2>4
<1>7. CASE PublishNext
  BY <1>7, PublishLemma
<1>8. CASE Reads
  <2>1. UNCHANGED <<stage, jobs, left, rc, asked>>
    BY <1>8 DEF Reads, storyVars
  <2>2. UNCHANGED <<outbox, arrived, smooth>>
    BY <1>8 DEF Reads, storyVars
  <2> QED
    BY <1>1, <2>1, <2>2 DEF Rests
<1>9. CASE CliEventTask
  BY <1>2, <1>9, EventMoves
<1>10. CASE Outside
  BY <1>1, <1>2, <1>10, OutsideLemma
<1>11. CASE UNCHANGED mainVars
  BY <1>1, <1>2, <1>11 DEF mainVars, cliVars, linkVars, storyVars
<1> QED
  BY <1>3, <1>4, <1>5, <1>6, <1>7, <1>8, <1>9, <1>10, <1>11, StepCases

(* The facts about the jobs and the commands are kept.                      *)
LEMMA ToolStep ==
    ASSUME MainInv, mode = "tool", [MainNext]_mainVars
    PROVE  ToolInv'
<1>1. /\ SessionTypes /\ ToolTypes /\ ModeTypes /\ QueueFacts
      /\ JobFacts /\ OrderFacts /\ SmoothFacts /\ AskedFacts
  BY DEF MainInv, MainTypes, ToolInv
<1>2. args' = args
  BY StepCases
<1>3. /\ Rests \/ Opens \/ Onward \/ Publishes \/ Leaves \/ Ends
      /\ Publishes \/ Keeps \/ Takes
  BY <1>1, StepMoves DEF MainInv
<1>4. /\ JobFacts' /\ Cursor \in Nat /\ Cursor' \in Nat
      /\ Publishes => Cursor' = Cursor + 1
      /\ ~Publishes => Cursor' >= Cursor
      /\ ~Publishes /\ rc' # 1 => Cursor' = Cursor
  BY <1>1, <1>2, <1>3, JobStep
<1>5. ~Publishes => asked' = asked /\ rc' \in {rc, 1}
  BY <1>3 DEF Rests, Opens, Onward, Leaves, Ends
<1>6. OrderFacts'
  <2>1. CASE Publishes
    BY <1>1, <1>2, <1>4, <2>1, OrderAsked
  <2>2. CASE ~Publishes /\ Keeps
    BY <1>1, <1>2, <1>4, <2>2, OrderKept
  <2>3. CASE ~Publishes /\ Takes
    BY <1>1, <1>2, <1>4, <2>3, OrderTaken
  <2> QED
    BY <1>3, <2>1, <2>2, <2>3
<1>7. SmoothFacts'
  <2>1. stage = "publishing" => Waiting = DOMAIN outbox
    BY <1>1 DEF QueueFacts
  <2>2. Publishes \/ (asked' = asked /\ (Keeps \/ Takes))
    BY <1>3, <1>5
  <2> QED
    BY <1>1, <2>1, <2>2, SmoothStep
<1>8. AskedFacts'
  BY <1>1, <1>2, <1>4, <1>5, AskedStep
<1> QED
  BY <1>4, <1>6, <1>7, <1>8 DEF ToolInv

-----------------------------------------------------------------------------
(* The session.                                                             *)

(* What the event task does to the session.                                 *)
LEMMA EventQueue ==
    ASSUME SessionTypes, ToolTypes, QueueFacts, CliEventTask
    PROVE  QueueFacts' /\ SessionTypes' /\ task' # "none" /\ task # "none"
<1>1. /\ stage \in Connections /\ stage' = stage /\ smooth' = smooth /\ Mqtt!EventTask(Me)
      /\ task # "none"
  BY DEF CliEventTask, ToolTypes, toolVars
<1>2. CASE Mqtt!Connect(Me)
  <2>1. /\ task = "polling" /\ task' = task /\ link' = "up" /\ state' = "Connected"
        /\ flag' = flag /\ outbox' = outbox
    BY <1>2 DEF Mqtt!Connect, Mqtt!ConnAck
  <2>2. Waiting' = Waiting
    BY <2>1 DEF Waiting
  <2> QED
    BY <1>1, <2>1, <2>2 DEF QueueFacts, SessionTypes
<1>3. CASE Mqtt!Retries
  <2>1. /\ task' = "polling" /\ UNCHANGED <<state, flag, link, outbox>> /\ task = "backoff"
    BY <1>3 DEF Mqtt!Retries, Mqtt!Wake
  <2>2. Waiting' = Waiting
    BY <2>1 DEF Waiting
  <2> QED
    BY <1>1, <2>1, <2>2 DEF QueueFacts, SessionTypes
<1>4. CASE Mqtt!ConnectionFails
  <2>1. /\ link # "up" /\ link' = "down" /\ flag' = flag
        /\ outbox' \in {outbox, <<>>}
        /\ task' \in {"ended", "backoff"} /\ (task' = "ended" => outbox' = <<>>)
        /\ state' \in {state, "PermanentFailure"}
    BY <1>4 DEF Mqtt!ConnectionFails, Mqtt!PollFails
  <2>2. CASE outbox' = <<>>
    <3>1. outbox' \in Seq(Request) /\ Len(outbox') = 0 /\ Waiting' = {} /\ DOMAIN outbox' = {}
      BY <2>2 DEF Waiting
    <3>2. SessionTypes'
      BY <2>1, <3>1, BoundsAssumption DEF SessionTypes
    <3>3. QueueFacts'
      BY <1>1, <2>1, <2>2, <3>1 DEF QueueFacts
    <3> QED
      BY <1>1, <2>1, <3>2, <3>3
  <2>3. CASE outbox' = outbox
    <3>1. Waiting' = Waiting
      BY <2>3 DEF Waiting
    <3>2. SessionTypes'
      BY <2>1, <2>3 DEF SessionTypes
    <3>3. QueueFacts'
      BY <1>1, <2>1, <2>3, <3>1 DEF QueueFacts
    <3> QED
      BY <1>1, <2>1, <3>2, <3>3
  <2> QED
    BY <2>1, <2>2, <2>3
<1>5. CASE Mqtt!Transmit(Me) \/ Mqtt!TransmitInVain
  <2>1. /\ outbox # <<>> /\ outbox' = Tail(outbox)
        /\ UNCHANGED <<task, state, flag>> /\ task = "polling"
    BY <1>5 DEF Mqtt!Transmit, Mqtt!TransmitInVain, Mqtt!Send
  <2>2. /\ Len(outbox) \in Nat \ {0} /\ DOMAIN outbox = 1..Len(outbox)
        /\ outbox' \in Seq(Request) /\ Len(outbox') = Len(outbox) - 1
        /\ DOMAIN outbox' = 1..(Len(outbox) - 1)
        /\ \A k \in 1..(Len(outbox) - 1) : outbox'[k] = outbox[k + 1]
        /\ Head(outbox) = outbox[1] /\ 1 \in DOMAIN outbox
    BY <2>1, TailLemma DEF SessionTypes
  <2>3. \A k \in DOMAIN outbox' : k + 1 \in DOMAIN outbox /\ outbox'[k] = outbox[k + 1]
                                  /\ (k + 1 = Len(outbox) => k = Len(outbox'))
    BY <2>2
  <2>4. link' = link \/ (link' = "broken" /\ link = "up" /\ Head(outbox).topic = "disconnect")
    BY <1>5 DEF Mqtt!Transmit, Mqtt!TransmitInVain
  <2>5. SessionTypes'
    <3>1. Len(outbox') <= MaxOutbox
      BY <2>2, BoundsAssumption DEF SessionTypes
    <3> QED
      BY <2>1, <2>2, <2>4, <3>1 DEF SessionTypes
  <2>6. stage = "publishing" => Waiting' = DOMAIN outbox'
    BY <2>3 DEF QueueFacts, Waiting
  <2>7. Head(outbox).topic = "disconnect" => outbox' = <<>> /\ stage = "joining"
    <3> SUFFICES ASSUME Head(outbox).topic = "disconnect"
                 PROVE  outbox' = <<>> /\ stage = "joining"
      OBVIOUS
    <3>1. outbox[1] = Bye
      <4>1. outbox[1] \in Request
        BY <2>2, ElementOfSeq DEF SessionTypes
      <4> QED
        BY <2>2, <4>1, RequestLemma DEF Request
    <3>2. 1 = Len(outbox) /\ stage = "joining"
      BY <2>2, <3>1 DEF QueueFacts
    <3>3. Len(outbox') = 0
      <4>1. Len(outbox') = Len(outbox) - 1
        BY <2>2
      <4> QED
        BY <3>2, <4>1
    <3> QED
      BY <2>2, <3>2, <3>3, EmptySeq
  <2>8. \A k \in DOMAIN outbox' : outbox'[k] = Bye => k = Len(outbox') /\ stage = "joining"
    BY <2>3 DEF QueueFacts
  <2>9. stage # "connecting"
    BY <2>1 DEF QueueFacts
  <2>10. link' = "up" => task' = "polling"
    BY <2>1
  <2>11. smooth => link = "up"
    BY <1>1, <2>1, DownLemma
  <2>12. link' = "up" \/ outbox' = <<>> \/ ~smooth
    BY <2>4, <2>7, <2>11
  <2>13. smooth /\ stage # "joining" => link' = "up"
    BY <2>4, <2>7, <2>11
  <2>14. QueueFacts'
    BY <1>1, <2>1, <2>6, <2>8, <2>9, <2>10, <2>12, <2>13 DEF QueueFacts, Connections
  <2> QED
    BY <1>1, <2>1, <2>5, <2>14
<1> QED
  BY <1>1, <1>2, <1>3, <1>4, <1>5 DEF Mqtt!EventTask

(* The facts about the session are kept.                                    *)
LEMMA QueueStep ==
    ASSUME MainTypes, QueueFacts, mode = "tool" => JobFacts, [MainNext]_mainVars
    PROVE  QueueFacts' /\ SessionTypes'
<1> USE DEF MainTypes
<1>1. ASSUME outbox' = <<>> PROVE Waiting' = {} /\ DOMAIN outbox' = {} /\ outbox' \in Seq(Request)
                                  /\ Len(outbox') <= MaxOutbox
  BY <1>1, BoundsAssumption DEF Waiting
<1>2. ASSUME outbox' = outbox PROVE Waiting' = Waiting
  BY <1>2 DEF Waiting
<1>3. CASE ConnectFirst
  <2>1. /\ stage' = "connecting" /\ outbox' = <<>> /\ link' = "down" /\ task' = "polling"
        /\ state' = "Connecting" /\ flag' = FALSE
    BY <1>3 DEF ConnectFirst, Goes, Mqtt!Open, Mqtt!Spawn
  <2>2. SessionTypes'
    BY <1>1, <2>1 DEF SessionTypes
  <2>3. QueueFacts'
    BY <1>1, <2>1 DEF QueueFacts
  <2> QED
    BY <2>2, <2>3
<1>4. CASE Closing \/ Failing
  <2>1. /\ stage' = "next" /\ outbox' = <<>> /\ link' = "down" /\ task' = "none"
        /\ state' = "Connecting" /\ flag' = FALSE
    BY <1>4, LeaveLemma
  <2>2. SessionTypes'
    BY <1>1, <2>1 DEF SessionTypes
  <2>3. QueueFacts'
    BY <1>1, <2>1 DEF QueueFacts, Connections
  <2> QED
    BY <2>2, <2>3
<1>5. CASE Passing
  <2>1. /\ UNCHANGED <<task, state, link, outbox, smooth>> /\ flag' \in {flag, TRUE}
        /\ \/ stage = "connecting" /\ state = "Connected" /\ stage' \in {"infos", "publishing"}
           \/ stage \in {"reading", "publishing"} /\ stage' = "closing"
           \/ stage = "next" /\ stage' = "exited"
    BY <1>5, PassLemma
  <2>2. Waiting' = Waiting
    BY <1>2, <2>1
  <2>3. SessionTypes'
    BY <2>1 DEF SessionTypes
  <2>4. CASE stage = "connecting"
    <3>1. outbox' = <<>> /\ stage' \in {"infos", "publishing"} /\ (smooth => link = "up")
      BY <2>1, <2>4 DEF QueueFacts
    <3>2. QueueFacts'
      BY <1>1, <2>1, <3>1 DEF QueueFacts
    <3> QED
      BY <2>3, <3>2
  <2>5. CASE stage \in {"reading", "publishing"}
    <3>1. stage' = "closing" /\ \A k \in DOMAIN outbox : outbox[k] # Bye
      BY <2>1, <2>5 DEF QueueFacts
    <3>2. smooth => link = "up"
      BY <2>5 DEF QueueFacts, Connections
    <3>3. QueueFacts'
      BY <2>1, <3>1, <3>2 DEF QueueFacts
    <3> QED
      BY <2>3, <3>3
  <2>6. CASE stage = "next"
    <3>1. outbox' = <<>> /\ stage' = "exited"
      BY <2>1, <2>6 DEF QueueFacts
    <3>2. QueueFacts'
      BY <1>1, <2>1, <3>1 DEF QueueFacts, Connections
    <3> QED
      BY <2>3, <3>2
  <2> QED
    BY <2>1, <2>4, <2>5, <2>6
<1>6. CASE Asking
  <2>1. /\ UNCHANGED <<task, state, flag, link, smooth>>
        /\ \/ stage = "infos" /\ stage' = "switches"
           \/ stage = "switches" /\ stage' = "reading"
           \/ stage = "closing" /\ stage' = "joining"
        /\ outbox' \in Seq(Request) /\ Len(outbox') <= MaxOutbox
        /\ task = "ended" => outbox' = <<>>
        /\ \A k \in DOMAIN outbox' : outbox'[k] = Bye => k = Len(outbox') /\ stage' = "joining"
    BY <1>6, AskingLemma
  <2>2. SessionTypes'
    BY <2>1 DEF SessionTypes
  <2>3. smooth => link = "up"
    BY <2>1 DEF QueueFacts, Connections
  <2>4. QueueFacts'
    BY <2>1, <2>3 DEF QueueFacts
  <2> QED
    BY <2>2, <2>4
<1>7. CASE PublishNext
  <2>1. stage = "publishing" /\ mode = "tool" /\ JobFacts
    BY <1>7 DEF PublishNext, ModeTypes
  <2> DEFINE msg == Command(Head(left), Head(jobs).body)
  <2>2. /\ stage' = stage /\ smooth' = smooth /\ msg \in Request /\ msg.topic = "enabled"
        /\ Len(outbox) < MaxOutbox /\ outbox' = Append(outbox, msg)
        /\ UNCHANGED <<task, state, flag, link>> /\ task # "ended"
    BY <1>7, <2>1, PublishLemma DEF Publishes, PublishNext, Asks, Command
  <2> HIDE DEF msg
  <2>3. /\ outbox' \in Seq(Request) /\ Len(outbox') <= MaxOutbox
        /\ Waiting' = DOMAIN outbox'
    BY <2>1, <2>2, AskStep DEF QueueFacts
  <2>4. \A k \in DOMAIN outbox' : outbox'[k] # Bye
    <3>1. \A k \in DOMAIN outbox' : outbox'[k].topic = "enabled"
      BY <2>3 DEF Waiting
    <3> QED
      BY <3>1, RequestLemma
  <2>5. SessionTypes'
    BY <2>2, <2>3 DEF SessionTypes
  <2>6. QueueFacts'
    BY <2>1, <2>2, <2>3, <2>4 DEF QueueFacts
  <2> QED
    BY <2>5, <2>6
<1>8. CASE Reads \/ UNCHANGED mainVars
  <2>1. UNCHANGED <<task, state, flag, link, outbox, stage, smooth>>
    BY <1>8 DEF Reads, storyVars, mainVars, cliVars, linkVars, toolVars
  <2>2. Waiting' = Waiting
    BY <1>2, <2>1
  <2> QED
    BY <2>1, <2>2 DEF QueueFacts, SessionTypes
<1>9. CASE CliEventTask
  BY <1>9, EventQueue
<1>10. CASE Outside
  <2>1. /\ stage' = stage /\ UNCHANGED <<task, state, outbox>>
        /\ smooth' => smooth /\ link' = link
        /\ link' # link => link = "up" /\ link' = "broken"
    BY <1>10, OutsideLemma DEF toolVars
  <2>2. flag' = flag
    BY <1>10 DEF Outside, LeakedConnects, CliCut, CliMend, CliExpires, OthersPublish,
          Mqtt!OthersPublish, Mqtt!Cut, Mqtt!Mend, Mqtt!Break, Mqtt!sessionVars
  <2>3. Waiting' = Waiting
    BY <1>2, <2>1
  <2>4. SessionTypes'
    BY <2>1, <2>2 DEF SessionTypes
  <2>5. QueueFacts'
    BY <2>1, <2>3 DEF QueueFacts
  <2> QED
    BY <2>4, <2>5
<1> QED
  BY <1>3, <1>4, <1>5, <1>6, <1>7, <1>8, <1>9, <1>10, StepCases
-----------------------------------------------------------------------------
(* Types.                                                                   *)

(* What is retained stays typed; a will is published on a topic of its own. *)
LEMMA RetainLemma ==
    ASSUME NEW held \in [RetainedTopics -> {"device", "on", "off", None}]
    PROVE  /\ \A msg \in Word : Mqtt!Retain(held, msg)
                                  \in [RetainedTopics -> {"device", "on", "off", None}]
           /\ Mqtt!Retain(held, [topic |-> "cli-lwt", slug |-> None, body |-> "offline"]) = held
<1>1. ASSUME NEW msg \in Word
      PROVE  Mqtt!Retain(held, msg) \in [RetainedTopics -> {"device", "on", "off", None}]
  BY DEF Mqtt!Retain, Word
<1>2. <<"cli-lwt", None>> \notin RetainedTopics
  BY DEF RetainedTopics
<1> QED
  BY <1>1, <1>2 DEF Mqtt!Retain, Mqtt!TopicOf

LEMMA EventTypes ==
    ASSUME SessionTypes, BrokerTypes, ToolTypes, CliEventTask
    PROVE  BrokerTypes' /\ arrived' \in Seq(Word)
<1>1. /\ Mqtt!EventTask(Me)
      /\ arrived' = IF link = "up" /\ outbox' # outbox /\ Head(outbox).topic = "enabled"
                    THEN Append(arrived, Head(outbox)) ELSE arrived
  BY DEF CliEventTask
<1>2. Me \in {Me} /\ sessions[Me] \in Session
  BY DEF BrokerTypes
<1>3. [open |-> TRUE, kinds |-> {}] \in Session /\ Mqtt!Closed \in Session
  BY DEF Session, Mqtt!Closed
<1>4. CASE Mqtt!Connect(Me)
  <2>1. /\ sessions' = [sessions EXCEPT ![Me] = [open |-> TRUE, kinds |-> {}]]
        /\ net' = net /\ incoming' = incoming /\ outbox' = outbox
        /\ retained' \in {retained, Mqtt!Retain(retained, [topic |-> "cli-lwt", slug |-> None,
                                                           body |-> "offline"])}
    BY <1>4 DEF Mqtt!Connect, Mqtt!ConnAck, Mqtt!Accept
  <2>2. retained' = retained
    BY <2>1, RetainLemma DEF BrokerTypes
  <2> QED
    BY <1>1, <1>3, <2>1, <2>2 DEF BrokerTypes, ToolTypes
<1>5. CASE Mqtt!Retries \/ Mqtt!ConnectionFails
  <2>1. UNCHANGED <<net, sessions, retained, incoming>>
    BY <1>5 DEF Mqtt!Retries, Mqtt!ConnectionFails
  <2>2. arrived' = arrived
    BY <1>1, <1>5 DEF Mqtt!Retries, Mqtt!Wake, Mqtt!ConnectionFails, Mqtt!PollFails
  <2> QED
    BY <2>1, <2>2 DEF BrokerTypes, ToolTypes
<1>6. CASE Mqtt!Transmit(Me) \/ Mqtt!TransmitInVain
  <2>1. outbox # <<>> /\ Head(outbox) \in Request
    BY <1>6, TailLemma DEF Mqtt!Transmit, Mqtt!TransmitInVain, Mqtt!Send, SessionTypes
  <2>2. Head(outbox).topic = "enabled" => Head(outbox) \in Word
    BY <2>1, RequestLemma DEF Request
  <2>3. arrived' \in Seq(Word)
    BY <1>1, <2>2, AppendLemma DEF ToolTypes
  <2>4. CASE Mqtt!TransmitInVain
    BY <2>3, <2>4 DEF Mqtt!TransmitInVain, BrokerTypes
  <2>5. CASE Mqtt!Transmit(Me)
    <3>1. net' = net
      BY <2>5 DEF Mqtt!Transmit
    <3>2. CASE Head(outbox).topic = "subscribe"
      <4>1. Head(outbox) \in {SubInfo, SubEnabled}
        BY <2>1, <3>2, RequestLemma DEF Request
      <4>2. Head(outbox).body \in {"info", "enabled"}
        BY <4>1, RequestLemma
      <4>3. /\ sessions' = [sessions EXCEPT ![Me].kinds = @ \cup {Head(outbox).body}]
            /\ retained' = retained
            /\ \E replay \in Mqtt!Replay(Head(outbox).body) : incoming' = incoming \o replay
        BY <2>5, <3>2 DEF Mqtt!Transmit, Mqtt!Subscribe
      <4>4. incoming' \in Seq(Word)
        <5>1. PICK replay \in Mqtt!Replay(Head(outbox).body) : incoming' = incoming \o replay
          BY <4>3
        <5>2. replay \in Seq(Word)
          BY <4>2, ReplayLemma
        <5> QED
          BY <5>1, <5>2, ConcatProperties DEF BrokerTypes
      <4>5. sessions' \in [{Me} -> Session]
        BY <1>2, <4>2, <4>3 DEF BrokerTypes, Session
      <4> QED
        BY <2>3, <3>1, <4>3, <4>4, <4>5 DEF BrokerTypes
    <3>3. CASE Head(outbox).topic = "disconnect"
      <4>1. sessions' = [sessions EXCEPT ![Me] = Mqtt!Closed] /\ retained' = retained
            /\ incoming' = incoming
        BY <2>5, <3>3 DEF Mqtt!Transmit, Mqtt!Close
      <4> QED
        BY <1>3, <2>3, <3>1, <4>1 DEF BrokerTypes
    <3>4. CASE Head(outbox).topic \notin {"subscribe", "disconnect"}
      <4>1. Head(outbox) \in Word
        BY <2>1, <3>4, RequestLemma DEF Request
      <4>2. /\ retained' = Mqtt!Retain(retained, Head(outbox))
            /\ incoming' = incoming \o Mqtt!Delivered(Me, Head(outbox))
            /\ sessions' = sessions
        BY <2>5, <3>4 DEF Mqtt!Transmit
      <4>3. Mqtt!Delivered(Me, Head(outbox)) \in Seq(Word)
        BY <4>1 DEF Mqtt!Delivered
      <4>4. incoming' \in Seq(Word)
        BY <4>2, <4>3, ConcatProperties DEF BrokerTypes
      <4>5. retained' \in [RetainedTopics -> {"device", "on", "off", None}]
        BY <4>1, <4>2, RetainLemma DEF BrokerTypes
      <4> QED
        BY <2>3, <3>1, <4>2, <4>4, <4>5 DEF BrokerTypes
    <3> QED
      BY <3>2, <3>3, <3>4
  <2> QED
    BY <1>6, <2>4, <2>5
<1> QED
  BY <1>1, <1>4, <1>5, <1>6 DEF Mqtt!EventTask

LEMMA OutsideTypes ==
    ASSUME BrokerTypes, ToolTypes, Outside
    PROVE  BrokerTypes'
<1>1. Mqtt!Closed \in Session /\ sessions[Me] \in Session
  BY DEF Session, Mqtt!Closed, BrokerTypes
<1>2. CASE LeakedConnects
  BY <1>1, <1>2 DEF LeakedConnects, BrokerTypes
<1>3. CASE CliCut
  BY <1>3 DEF CliCut, Mqtt!Cut, BrokerTypes
<1>4. CASE CliMend
  BY <1>4 DEF CliMend, Mqtt!Mend, BrokerTypes
<1>5. CASE CliExpires
  <2>1. /\ sessions' = [sessions EXCEPT ![Me] = Mqtt!Closed]
        /\ retained' = Mqtt!Retain(retained, [topic |-> "cli-lwt", slug |-> None,
                                              body |-> "offline"])
        /\ net' = net /\ incoming' = incoming
    BY <1>5 DEF CliExpires, Mqtt!Expire
  <2>2. retained' = retained
    BY <2>1, RetainLemma DEF BrokerTypes
  <2> QED
    BY <1>1, <2>1, <2>2 DEF BrokerTypes
<1>6. ASSUME NEW msg \in OthersWords, OthersPublish(msg) PROVE BrokerTypes'
  <2>1. msg \in Word
    BY DEF OthersWords, Word
  <2>2. /\ retained' = Mqtt!Retain(retained, msg)
        /\ incoming' \in {incoming, incoming \o Mqtt!Delivered(Me, msg)}
        /\ net' = net /\ sessions' = sessions
    BY <1>6 DEF OthersPublish, Mqtt!OthersPublish
  <2>3. Mqtt!Delivered(Me, msg) \in Seq(Word)
    BY <2>1 DEF Mqtt!Delivered
  <2>4. incoming' \in Seq(Word)
    <3>1. incoming \in Seq(Word)
      BY DEF BrokerTypes
    <3>2. incoming \o Mqtt!Delivered(Me, msg) \in Seq(Word)
      BY <2>3, <3>1, ConcatProperties
    <3> QED
      BY <2>2, <3>1, <3>2
  <2>5. retained' \in [RetainedTopics -> {"device", "on", "off", None}]
    BY <2>1, <2>2, RetainLemma DEF BrokerTypes
  <2> QED
    BY <2>2, <2>4, <2>5 DEF BrokerTypes
<1> QED
  BY <1>2, <1>3, <1>4, <1>5, <1>6 DEF Outside

(* What a listing collects.                                                 *)
LEMMA CollectLemma ==
    ASSUME NEW seen \in Listing, NEW msg \in Word
    PROVE  Collect(seen, msg) \in Listing
<1>1. msg.topic \in {"info", "enabled"} /\ msg.slug \in Slugs
      /\ msg.body \in {"device", "on", "off", None}
  BY DEF Word
<1>2. seen.infos \in SUBSET Slugs /\ seen.enabled \in [Slugs -> {"device", "on", "off", None}]
  BY DEF Listing
<1>3. CASE msg.topic = "info" /\ msg.body # None
  <2>1. Collect(seen, msg) = [seen EXCEPT !.infos = @ \cup {msg.slug}]
    BY <1>3 DEF Collect
  <2> QED
    BY <1>1, <1>2, <2>1 DEF Listing
<1>4. CASE msg.topic = "info" /\ msg.body = None
  <2>1. Collect(seen, msg) = [seen EXCEPT !.infos = @ \ {msg.slug}]
    BY <1>4 DEF Collect
  <2> QED
    BY <1>1, <1>2, <2>1 DEF Listing
<1>5. CASE msg.topic = "enabled"
  <2>1. Collect(seen, msg) = [seen EXCEPT !.enabled[msg.slug] = msg.body]
    BY <1>5 DEF Collect
  <2> QED
    BY <1>1, <1>2, <2>1 DEF Listing
<1> QED
  BY <1>1, <1>3, <1>4, <1>5
LEMMA ToolTypesStep ==
    ASSUME MainTypes, QueueFacts, mode = "tool" => JobFacts, [MainNext]_mainVars
    PROVE  BrokerTypes' /\ ToolTypes' /\ ModeTypes'
<1> USE DEF MainTypes
<1>1. args' = args /\ mode' = mode
  BY StepCases
<1>2. ASSUME UNCHANGED <<stage, rc>> PROVE ModeTypes'
  BY <1>1, <1>2 DEF ModeTypes
<1>3. ASSUME stage # "exited", rc' \in {rc, 1} PROVE ModeTypes'
  <2>1. mode = "tool"
    BY <1>3 DEF ModeTypes
  <2>2. rc \in {0, 1} /\ mode # "rejected"
    BY <2>1 DEF ModeTypes
  <2> QED
    BY <1>1, <1>3, <2>1, <2>2 DEF ModeTypes
<1>4. CASE ConnectFirst
  <2>1. /\ stage = "next" /\ stage' = "connecting" /\ task' = "polling" /\ incoming' = <<>>
        /\ jobs # <<>> /\ left' = Head(jobs).slugs
        /\ UNCHANGED <<net, sessions, retained, jobs, leaked, rc, listing, smooth, asked, arrived>>
    BY <1>4 DEF ConnectFirst, Goes, Mqtt!Open, Mqtt!Spawn, storyVars
  <2>2. BrokerTypes'
    BY <2>1 DEF BrokerTypes
  <2>3. Head(jobs) \in Task
    BY <2>1, TailLemma DEF ToolTypes
  <2>4. left' \in Seq(Slugs)
    BY <2>1, <2>3, TaskLemma
  <2>5. ToolTypes'
    BY <2>1, <2>4 DEF ToolTypes, Connections
  <2> QED
    BY <1>3, <2>1, <2>2, <2>5
<1>5. CASE Closing \/ Failing
  <2>1. /\ stage \in {"connecting", "infos", "switches", "publishing", "joining"}
        /\ stage' = "next" /\ jobs' = Tail(jobs) /\ left' \in {left, <<>>}
        /\ task' = "none" /\ incoming' = <<>>
        /\ UNCHANGED <<net, sessions, retained, listing, asked, arrived>>
        /\ leaked' \in {leaked, leaked + 1} /\ rc' \in {rc, 1} /\ smooth' \in {smooth, FALSE}
    BY <1>5, LeaveLemma
  <2>2. BrokerTypes'
    BY <2>1 DEF BrokerTypes
  <2>3. jobs' \in Seq(Task)
    BY <2>1, TailLemma DEF ToolTypes, Connections
  <2>4. left' \in Seq(Slugs) /\ leaked' \in Nat /\ smooth' \in BOOLEAN
    <3>1. left \in Seq(Slugs) /\ <<>> \in Seq(Slugs)
      BY DEF ToolTypes
    <3>2. leaked \in Nat /\ leaked + 1 \in Nat
      BY DEF ToolTypes
    <3>3. smooth \in BOOLEAN
      BY DEF ToolTypes
    <3> QED
      BY <2>1, <3>1, <3>2, <3>3
  <2>5. ToolTypes'
    BY <2>1, <2>3, <2>4 DEF ToolTypes, Connections
  <2> QED
    BY <1>3, <2>1, <2>2, <2>5
<1>6. CASE Passing
  <2>1. /\ UNCHANGED <<task, net, sessions, retained, incoming>>
        /\ UNCHANGED <<jobs, left, leaked, rc, listing, smooth, asked, arrived>>
        /\ \/ stage = "connecting" /\ stage' \in {"infos", "publishing"}
           \/ stage \in {"reading", "publishing"} /\ stage' = "closing"
           \/ stage = "next" /\ stage' = "exited"
    BY <1>6, PassLemma
  <2>2. BrokerTypes'
    BY <2>1 DEF BrokerTypes
  <2>3. ToolTypes'
    BY <2>1 DEF ToolTypes, Connections
  <2> QED
    BY <1>3, <2>1, <2>2, <2>3
<1>7. CASE Asking
  <2>1. /\ UNCHANGED <<task, net, sessions, retained, incoming>>
        /\ UNCHANGED <<jobs, left, leaked, rc, listing, smooth, asked, arrived>>
        /\ stage \in {"infos", "switches", "closing"}
        /\ stage' \in {"switches", "reading", "joining"}
    BY <1>7, AskingLemma
  <2>2. BrokerTypes'
    BY <2>1 DEF BrokerTypes
  <2>3. ToolTypes'
    BY <2>1 DEF ToolTypes, Connections
  <2> QED
    BY <1>3, <2>1, <2>2, <2>3
<1>8. CASE PublishNext
  <2>1. stage = "publishing" /\ stage' = stage /\ mode = "tool" /\ JobFacts /\ left # <<>>
    BY <1>8 DEF PublishNext, ModeTypes
  <2> DEFINE msg == Command(Head(left), Head(jobs).body)
  <2>2. msg \in Word /\ asked' = Append(asked, msg) /\ left' = Tail(left)
    BY <1>8, <2>1, PublishLemma DEF Publishes
  <2> HIDE DEF msg
  <2>3. /\ UNCHANGED <<task, net, sessions, retained, incoming>>
        /\ UNCHANGED <<jobs, leaked, rc, listing, smooth, arrived>>
    BY <1>8 DEF PublishNext, Asks
  <2>4. asked' \in Seq(Word)
    BY <2>2, AppendLemma DEF ToolTypes
  <2>5. left' \in Seq(Slugs)
    BY <2>1, <2>2, TailLemma DEF ToolTypes
  <2>6. BrokerTypes'
    BY <2>3 DEF BrokerTypes
  <2>7. ToolTypes'
    BY <2>1, <2>3, <2>4, <2>5 DEF ToolTypes
  <2> QED
    BY <1>2, <2>1, <2>3, <2>6, <2>7
<1>9. CASE Reads
  <2>1. /\ incoming # <<>> /\ incoming' = Tail(incoming)
        /\ listing' = Collect(listing, Head(incoming))
        /\ UNCHANGED <<task, net, sessions, retained, stage>>
        /\ UNCHANGED <<jobs, left, leaked, rc, smooth, asked, arrived>>
    BY <1>9 DEF Reads, storyVars
  <2>2. incoming' \in Seq(Word) /\ Head(incoming) \in Word
    BY <2>1, TailLemma DEF BrokerTypes
  <2>3. listing' \in Listing
    BY <2>1, <2>2, CollectLemma DEF ToolTypes
  <2>4. BrokerTypes'
    BY <2>1, <2>2 DEF BrokerTypes
  <2>5. ToolTypes'
    BY <2>1, <2>3 DEF ToolTypes
  <2> QED
    BY <1>2, <2>1, <2>4, <2>5
<1>10. CASE CliEventTask
  <2>1. BrokerTypes' /\ arrived' \in Seq(Word)
    BY <1>10, EventTypes
  <2>2. stage \in Connections /\ UNCHANGED <<toolVars, smooth, asked>>
    BY <1>10, EventMoves
  <2>3. task # "none" /\ task' # "none"
    BY <1>10, EventQueue
  <2>4. ToolTypes'
    BY <2>1, <2>2, <2>3 DEF ToolTypes, toolVars
  <2> QED
    BY <1>2, <2>1, <2>2, <2>4 DEF toolVars
<1>11. CASE Outside
  <2>1. UNCHANGED <<toolVars, task, asked, arrived>> /\ smooth' \in BOOLEAN
    BY <1>11, OutsideLemma
  <2>2. BrokerTypes'
    BY <1>11, OutsideTypes
  <2>3. ToolTypes'
    BY <2>1 DEF ToolTypes, toolVars
  <2> QED
    BY <1>2, <2>1, <2>2, <2>3 DEF toolVars
<1>12. CASE UNCHANGED mainVars
  <2>1. UNCHANGED <<linkVars, toolVars, storyVars>>
    BY <1>12 DEF mainVars, cliVars
  <2>2. BrokerTypes'
    BY <2>1 DEF linkVars, BrokerTypes
  <2>3. ToolTypes'
    BY <2>1 DEF linkVars, toolVars, storyVars, ToolTypes
  <2> QED
    BY <1>2, <2>1, <2>2, <2>3 DEF toolVars
<1> QED
  BY <1>4, <1>5, <1>6, <1>7, <1>8, <1>9, <1>10, <1>11, <1>12, StepCases

-----------------------------------------------------------------------------
(* The invariant holds at first, and every step keeps it.                   *)
LEMMA MainInitially == MainInit => MainInv
<1> SUFFICES ASSUME MainInit PROVE MainInv
  OBVIOUS
<1>1. /\ args \in CommandLines /\ mode = into_runtime(args)
      /\ mode \in {"tool", "daemon", "rejected"}
  BY DEF MainInit, into_runtime
<1> DEFINE todo == IF mode = "tool" THEN JobsOf(args) ELSE <<>>
           code == IF mode = "rejected" THEN 2 ELSE 0
<1>2. PICK held \in Held : CliInit(todo, code, held)
  <2>1. PICK held \in Held :
           CASE mode = "tool"     -> CliInit(JobsOf(args), 0, held)
             [] mode = "daemon"   -> CliInit(<<>>, 0, held)
             [] mode = "rejected" -> CliInit(<<>>, 2, held)
    BY DEF MainInit
  <2>2. CASE mode = "tool"
    BY <2>1, <2>2
  <2>3. CASE mode = "daemon"
    BY <2>1, <2>3
  <2>4. CASE mode = "rejected"
    BY <2>1, <2>4
  <2> QED
    BY <1>1, <2>2, <2>3, <2>4
<1>3. todo \in Seq(Task)
  <2>1. CASE mode = "tool"
    <3>1. /\ args.enable_device \in Seq(Slugs) /\ args.disable_device \in Seq(Slugs)
          /\ args.remove_device \in Seq(Slugs)
      BY <1>1, CommandLinesAssumption DEF Args
    <3>2. <<ListDevices>> \in Seq(Task)
      BY DEF Task
    <3> DEFINE A == IF args.enable_device = <<>> THEN <<>> ELSE <<Job("on", args.enable_device)>>
               B == IF args.disable_device = <<>> THEN <<>> ELSE <<Job("off", args.disable_device)>>
               C == IF args.remove_device = <<>> THEN <<>> ELSE <<Job(None, args.remove_device)>>
    <3>3. A \in Seq(Task) /\ B \in Seq(Task) /\ C \in Seq(Task)
      BY <3>1, TaskLemma
    <3>4. Manage(args.enable_device, args.disable_device, args.remove_device) = A \o B \o C
      BY DEF Manage
    <3> HIDE DEF A, B, C
    <3>5. A \o B \o C \in Seq(Task)
      BY <3>3, ConcatProperties
    <3> QED
      BY <2>1, <3>2, <3>4, <3>5 DEF JobsOf
  <2> QED
    BY <2>1
<1> HIDE DEF todo
<1>4. /\ task = "none" /\ state = "Connecting" /\ flag = FALSE /\ link = "down"
      /\ outbox = <<>> /\ net = "up" /\ incoming = <<>>
      /\ sessions = [c \in {Me} |-> [open |-> FALSE, kinds |-> {}]]
      /\ retained = held
      /\ stage = IF todo = <<>> THEN "exited" ELSE "next"
      /\ jobs = todo /\ left = <<>> /\ leaked = 0 /\ rc = code
      /\ listing = Nothing /\ smooth = TRUE /\ asked = <<>> /\ arrived = <<>>
  BY <1>2 DEF CliInit, Mqtt!ConnectionInit, Mqtt!SessionInit, Mqtt!Closed
<1>5. SessionTypes
  <2>1. <<>> \in Seq(Request) /\ Len(<<>>) <= MaxOutbox
    BY BoundsAssumption
  <2> QED
    BY <1>4, <2>1 DEF SessionTypes
<1>6. BrokerTypes
  BY <1>4 DEF BrokerTypes, Session, Held
<1>7. ToolTypes
  <2>1. listing \in Listing
    BY <1>4 DEF Nothing, Listing
  <2> QED
    BY <1>3, <1>4, <2>1 DEF ToolTypes, Connections
<1>8. ModeTypes
  BY <1>1, <1>4 DEF ModeTypes, todo
<1>9. QueueFacts
  <2>1. DOMAIN outbox = {}
    BY <1>4
  <2> QED
    BY <1>4, <2>1 DEF QueueFacts, Connections
<1>10. ASSUME mode = "tool" PROVE ToolInv
  <2>1. jobs = JobsOf(args) /\ rc = 0
    BY <1>4, <1>10 DEF todo
  <2>2. /\ JobsOf(args) \in Seq(Task)
        /\ Begin \in Layout(JobsOf(args), Wanted(args))
    BY <1>8, <1>10, LayoutLemma
  <2>3. Turn = 1
    BY <2>1, <2>2 DEF Turn
  <2>4. JobFacts
    <3>1. \A i \in DOMAIN jobs : Turn - 1 + i = i
      BY <2>1, <2>2, <2>3
    <3>2. Len(jobs) \in Nat
      BY <2>1, <2>2
    <3> QED
      BY <1>4, <2>1, <3>1, <3>2 DEF JobFacts, Connections
  <2>5. Cursor = 0
    <3>1. Begin[1] = 0
      BY <2>2 DEF Layout
    <3> QED
      BY <1>4, <2>3, <3>1 DEF Cursor, Connections
  <2>6. /\ Waiting = {} /\ DOMAIN arrived = {} /\ DOMAIN asked = {}
        /\ Len(arrived) = 0 /\ Len(asked) = 0
    BY <1>4 DEF Waiting
  <2>7. OrderFacts
    <3> DEFINE p == [i \in {} |-> 0]
    <3>1. p \in [DOMAIN arrived -> 1..Cursor] /\ p \in [Waiting -> 1..Cursor]
      BY <2>6
    <3> HIDE DEF p
    <3>2. Places(p, p)
      BY <2>6 DEF Places
    <3> QED
      BY <3>1, <3>2 DEF OrderFacts
  <2>8. SmoothFacts
    BY <2>6 DEF SmoothFacts
  <2>9. AskedFacts
    BY <2>5, <2>6 DEF AskedFacts
  <2> QED
    BY <2>4, <2>7, <2>8, <2>9 DEF ToolInv
<1> QED
  BY <1>5, <1>6, <1>7, <1>8, <1>9, <1>10 DEF MainInv, MainTypes

LEMMA MainInvariance == MainSpec => []MainInv
<1>1. MainInv /\ [MainNext]_mainVars => MainInv'
  <2> SUFFICES ASSUME MainInv, [MainNext]_mainVars PROVE MainInv'
    OBVIOUS
  <2>1. MainTypes /\ QueueFacts /\ (mode = "tool" => JobFacts)
    BY DEF MainInv, ToolInv
  <2>2. QueueFacts' /\ SessionTypes'
    BY <2>1, QueueStep
  <2>3. BrokerTypes' /\ ToolTypes' /\ ModeTypes'
    BY <2>1, ToolTypesStep
  <2>4. mode' = "tool" => ToolInv'
    BY ToolStep, StepCases
  <2> QED
    BY <2>2, <2>3, <2>4 DEF MainInv, MainTypes
<1> QED
  BY <1>1, MainInitially, PTL DEF MainSpec

-----------------------------------------------------------------------------
(* A listing: what has been collected, and what is still to be read, is     *)
(* what the broker retains.                                                 *)

Kinds     == {"info", "enabled"}
Listening == {"infos", "switches", "reading"}

About(msg, kind, s) == msg.topic = kind /\ msg.slug = s

Silent(list, kind, s) == \A i \in DOMAIN list : ~About(list[i], kind, s)

(* The last word of a list on a topic, if there is one.                     *)
LastSays(list, kind, s, body) ==
    \A i \in DOMAIN list :
        /\ About(list[i], kind, s)
        /\ \A j \in DOMAIN list : j > i => ~About(list[j], kind, s)
        => list[i].body = body

(* What a listing shows of a topic.                                         *)
Shows(seen, kind, s, body) ==
    /\ kind = "info" => (s \in seen.infos <=> body # None)
    /\ kind = "enabled" => seen.enabled[s] = body

(* What the tool knows of a topic when it has read what is on its way.      *)
Told(list, seen, kind, s, body) ==
    /\ LastSays(list, kind, s, body)
    /\ Silent(list, kind, s) => Shows(seen, kind, s, body)

(* Of the kinds it is not subscribed for it knows nothing.                  *)
Known(kind, s) == IF kind \in sessions[Me].kinds THEN retained[<<kind, s>>] ELSE None

AskedFor(kind) ==
    \/ kind \in sessions[Me].kinds
    \/ \E k \in DOMAIN outbox : outbox[k] = Mqtt!SubscribeTo(kind)

(* A listing is the only job of its command line.                           *)
ListsOnly ==
    /\ args.list_devices => jobs \in {<<>>, <<ListDevices>>}
    /\ ~args.list_devices => \A i \in DOMAIN jobs : jobs[i].kind = "publish"
    /\ stage \in Listening => args.list_devices

(* Before its connection is up it has heard nothing.                        *)
FreshFacts ==
    args.list_devices /\ jobs # <<>> /\ stage \in {"next", "connecting"} =>
        listing = Nothing /\ incoming = <<>> /\ sessions[Me].kinds = {}

OpenFacts == link = "up" => sessions[Me].open

HearFacts ==
    stage \in Listening /\ smooth =>
        \A kind \in Kinds, s \in Slugs : Told(incoming, listing, kind, s, Known(kind, s))

AskFacts ==
    stage \in Listening /\ smooth =>
        /\ stage \in {"switches", "reading"} => AskedFor("info")
        /\ stage = "reading" => AskedFor("enabled")

ListInv == ListsOnly /\ FreshFacts /\ OpenFacts /\ HearFacts /\ AskFacts

(* More comes in: what it says of the topic is the new value, or it says    *)
(* nothing and the value is the old one.                                    *)
LEMMA ToldMore ==
    ASSUME NEW list \in Seq(Word), NEW more \in Seq(Word), NEW seen, NEW kind, NEW s,
           NEW old, NEW new, Told(list, seen, kind, s, old),
           \A i \in DOMAIN more : About(more[i], kind, s) => more[i].body = new,
           Silent(more, kind, s) => new = old
    PROVE  Told(list \o more, seen, kind, s, new)
<1> DEFINE m == Len(list)
           n == Len(more)
           both == list \o more
<1>1. /\ m \in Nat /\ n \in Nat /\ DOMAIN list = 1..m /\ DOMAIN more = 1..n
      /\ DOMAIN both = 1..(m + n)
      /\ \A i \in 1..m : both[i] = list[i]
      /\ \A i \in 1..n : both[m + i] = more[i]
  OBVIOUS
<1> HIDE DEF m, n, both
<1>2. \A i \in DOMAIN list : i \in DOMAIN both /\ both[i] = list[i]
  BY <1>1
<1>3. \A i \in DOMAIN more : m + i \in DOMAIN both /\ both[m + i] = more[i]
  BY <1>1
<1>4. \A i \in DOMAIN both : i \in DOMAIN list \/ \E j \in DOMAIN more : i = m + j
  <2> SUFFICES ASSUME NEW i \in 1..(m + n), i \notin 1..m
               PROVE  \E j \in 1..n : i = m + j
    BY <1>1
  <2>1. i - m \in 1..n /\ i = m + (i - m)
    BY <1>1
  <2> QED
    BY <2>1
<1>5. \A i \in DOMAIN list, j \in DOMAIN more : m + j > i
  BY <1>1
<1>6. CASE Silent(more, kind, s)
  <2>1. new = old
    BY <1>6
  <2>2. ASSUME NEW i \in DOMAIN both, About(both[i], kind, s),
               \A j \in DOMAIN both : j > i => ~About(both[j], kind, s)
        PROVE  both[i].body = new
    <3>1. i \in DOMAIN list
      BY <1>3, <1>4, <1>6, <2>2 DEF Silent
    <3>2. \A j \in DOMAIN list : j > i => ~About(list[j], kind, s)
      BY <1>2, <2>2
    <3> QED
      BY <1>2, <2>1, <2>2, <3>1, <3>2 DEF Told, LastSays
  <2>3. Silent(both, kind, s) => Silent(list, kind, s)
    BY <1>2 DEF Silent
  <2> QED
    BY <2>1, <2>2, <2>3 DEF Told, LastSays, both
<1>7. CASE ~Silent(more, kind, s)
  <2>1. PICK k \in DOMAIN more : About(more[k], kind, s)
    BY <1>7 DEF Silent
  <2>2. ASSUME NEW i \in DOMAIN both, About(both[i], kind, s),
               \A j \in DOMAIN both : j > i => ~About(both[j], kind, s)
        PROVE  both[i].body = new
    <3>1. i \notin DOMAIN list
      BY <1>3, <1>5, <2>1, <2>2
    <3>2. PICK j \in DOMAIN more : i = m + j
      BY <1>4, <3>1
    <3> QED
      BY <1>3, <2>2, <3>2
  <2>3. ~Silent(both, kind, s)
    BY <1>3, <2>1 DEF Silent
  <2> QED
    BY <2>2, <2>3 DEF Told, LastSays, both
<1> QED
  BY <1>6, <1>7

(* A word is read, and collected.                                           *)
LEMMA ToldRead ==
    ASSUME NEW list \in Seq(Word), list # <<>>, NEW seen \in Listing,
           NEW kind \in Kinds, NEW s \in Slugs, NEW body, Told(list, seen, kind, s, body)
    PROVE  Told(Tail(list), Collect(seen, Head(list)), kind, s, body)
<1> DEFINE rest == Tail(list)
           msg  == Head(list)
<1>1. /\ Len(list) \in Nat \ {0} /\ DOMAIN list = 1..Len(list)
      /\ rest \in Seq(Word) /\ DOMAIN rest = 1..(Len(list) - 1)
      /\ \A k \in 1..(Len(list) - 1) : rest[k] = list[k + 1]
      /\ msg = list[1] /\ 1 \in DOMAIN list /\ msg \in Word
  BY TailLemma
<1> HIDE DEF rest, msg
<1>2. \A i \in DOMAIN rest : i + 1 \in DOMAIN list /\ rest[i] = list[i + 1] /\ i \in Nat
  BY <1>1
<1>3. \A i \in DOMAIN list : i = 1 \/ (i - 1 \in DOMAIN rest /\ rest[i - 1] = list[i])
  <2> SUFFICES ASSUME NEW i \in DOMAIN list, i # 1
               PROVE  i - 1 \in DOMAIN rest /\ rest[i - 1] = list[i]
    OBVIOUS
  <2>1. i - 1 \in 1..(Len(list) - 1) /\ (i - 1) + 1 = i
    BY <1>1
  <2> QED
    BY <1>1, <2>1
<1>4. LastSays(rest, kind, s, body)
  <2> SUFFICES ASSUME NEW i \in DOMAIN rest, About(rest[i], kind, s),
                      \A j \in DOMAIN rest : j > i => ~About(rest[j], kind, s)
               PROVE  rest[i].body = body
    BY DEF LastSays
  <2>1. ASSUME NEW j \in DOMAIN list, j > i + 1 PROVE ~About(list[j], kind, s)
    <3>1. i \in Nat /\ j \in Nat
      BY <1>1, <1>2
    <3>2. j # 1 /\ j - 1 > i
      BY <2>1, <3>1
    <3> QED
      BY <1>3, <3>2
  <2> QED
    BY <1>2, <2>1 DEF Told, LastSays
<1>5. ASSUME Silent(rest, kind, s) PROVE Shows(Collect(seen, msg), kind, s, body)
  <2>0. msg.topic \in Kinds /\ msg.slug \in Slugs
        /\ seen.infos \in SUBSET Slugs
        /\ seen.enabled \in [Slugs -> {"device", "on", "off", None}]
    BY <1>1 DEF Word, Kinds, Listing
  <2>1. \A j \in DOMAIN list : j > 1 => ~About(list[j], kind, s)
    BY <1>1, <1>3, <1>5 DEF Silent
  <2>2. CASE About(msg, kind, s)
    <3>1. msg.body = body
      BY <1>1, <2>1, <2>2 DEF Told, LastSays
    <3> QED
      BY <2>0, <2>2, <3>1 DEF Shows, Collect, About, Kinds
  <2>3. CASE ~About(msg, kind, s)
    <3>1. Silent(list, kind, s)
      BY <1>1, <1>3, <1>5, <2>3 DEF Silent
    <3>2. Shows(seen, kind, s, body)
      BY <3>1 DEF Told
    <3> QED
      BY <2>0, <2>3, <3>2 DEF Shows, Collect, About, Kinds
  <2> QED
    BY <2>2, <2>3
<1> QED
  BY <1>4, <1>5 DEF Told, rest, msg

(* What a publish leaves on the topics.                                     *)
LEMMA RetainedAfter ==
    ASSUME NEW held \in [RetainedTopics -> {"device", "on", "off", None}],
           NEW msg \in Word, NEW kind \in Kinds, NEW s \in Slugs
    PROVE  Mqtt!Retain(held, msg)[<<kind, s>>]
             = IF About(msg, kind, s) THEN msg.body ELSE held[<<kind, s>>]
<1>1. <<kind, s>> \in RetainedTopics
  BY DEF RetainedTopics, Kinds
<1>2. <<msg.topic, msg.slug>> \in RetainedTopics
  BY DEF RetainedTopics, Word
<1>3. Mqtt!Retain(held, msg) = [held EXCEPT ![<<msg.topic, msg.slug>>] = msg.body]
  BY <1>2 DEF Mqtt!Retain, Mqtt!TopicOf
<1> QED
  BY <1>1, <1>2, <1>3 DEF About

(* A replay says of each topic of the kind what is retained, and is silent  *)
(* about the others.                                                        *)
LEMMA ReplaySays ==
    ASSUME BrokerTypes, NEW kind \in Kinds, NEW replay \in Mqtt!Replay(kind)
    PROVE  /\ replay \in Seq(Word)
           /\ \A i \in DOMAIN replay :
                 /\ replay[i].topic = kind
                 /\ replay[i].body = retained[<<kind, replay[i].slug>>]
           /\ \A s \in Slugs : Silent(replay, kind, s) => retained[<<kind, s>>] = None
<1> DEFINE held == {t \in RetainedTopics : t[1] = kind /\ retained[t] # None}
<1>1. PICK order \in Mqtt!Lists!SetToSeqs(held) :
         replay = [k \in DOMAIN order |->
                     [topic |-> kind, slug |-> order[k][2], body |-> retained[order[k]]]]
  BY DEF Mqtt!Replay
<1>2. IsFiniteSet(held)
  <2>1. IsFiniteSet(RetainedTopics)
    BY TopicsAreFinite
  <2> QED
    BY <2>1, FS_Subset
<1>3. \A t \in held : t[1] = kind /\ t = <<kind, t[2]>>
  BY DEF RetainedTopics
<1>4. \A s \in Slugs : retained[<<kind, s>>] # None => <<kind, s>> \in held
  BY DEF RetainedTopics, Kinds
<1> HIDE DEF held
<1>5. Mqtt!Lists!Cardinality(held) = Cardinality(held)
  BY DEF Mqtt!Lists!Cardinality, Cardinality
<1> DEFINE places == 1..Cardinality(held)
<1>6. order \in [places -> held] /\ \A i, j \in places : i # j => order[i] # order[j]
  BY <1>1, <1>5 DEF Mqtt!Lists!SetToSeqs
<1>7. Cardinality(held) \in Nat
  BY <1>2, FS_CardinalityType
<1>8. \A t \in held : \E k \in places : order[k] = t
  <2>1. Cardinality(places) = Cardinality(held)
    BY <1>7, FS_Interval
  <2>2. order \in Injection(places, held)
    BY <1>6 DEF Injection, IsInjective
  <2>3. order \in Surjection(places, held)
    <3> HIDE DEF places
    <3> QED
      BY <1>2, <2>1, <2>2, FS_Injection
  <2> QED
    BY <2>3 DEF Surjection
<1>9. DOMAIN replay = places /\ DOMAIN order = places
  BY <1>1, <1>6
<1> HIDE DEF places
<1>10. \A i \in places : /\ replay[i].topic = kind /\ replay[i].slug = order[i][2]
                         /\ replay[i].body = retained[order[i]] /\ order[i] \in held
  BY <1>1, <1>6, <1>9
<1>11. \A i \in DOMAIN replay :
          /\ replay[i].topic = kind
          /\ replay[i].body = retained[<<kind, replay[i].slug>>]
  BY <1>3, <1>9, <1>10
<1>12. ASSUME NEW s \in Slugs, Silent(replay, kind, s) PROVE retained[<<kind, s>>] = None
  <2> SUFFICES ASSUME retained[<<kind, s>>] # None PROVE FALSE
    OBVIOUS
  <2>1. PICK i \in places : order[i] = <<kind, s>>
    BY <1>4, <1>8
  <2>2. About(replay[i], kind, s)
    BY <1>10, <2>1 DEF About
  <2> QED
    BY <1>9, <1>12, <2>2 DEF Silent
<1>13. replay \in Seq(Word)
  BY ReplayLemma DEF Kinds
<1> QED
  BY <1>11, <1>12, <1>13

(* A subscription: the replay of its kind, and nothing new of the other.    *)
LEMMA SubscribeTold ==
    ASSUME BrokerTypes, NEW seen, NEW sort \in Kinds, NEW replay \in Mqtt!Replay(sort),
           NEW kind \in Kinds, NEW s \in Slugs,
           Told(incoming, seen, kind, s, Known(kind, s))
    PROVE  Told(incoming \o replay, seen, kind, s,
                IF kind \in sessions[Me].kinds \cup {sort} THEN retained[<<kind, s>>] ELSE None)
<1> DEFINE new == IF kind \in sessions[Me].kinds \cup {sort}
                  THEN retained[<<kind, s>>] ELSE None
<1>1. replay \in Seq(Word) /\ incoming \in Seq(Word)
  BY ReplaySays DEF BrokerTypes
<1>2. \A i \in DOMAIN replay : About(replay[i], kind, s) =>
         kind = sort /\ replay[i].body = retained[<<kind, s>>]
  <2>1. \A i \in DOMAIN replay :
           replay[i].topic = sort /\ replay[i].body = retained[<<sort, replay[i].slug>>]
    BY ReplaySays
  <2> QED
    BY <2>1 DEF About
<1>3. \A i \in DOMAIN replay : About(replay[i], kind, s) => replay[i].body = new
  BY <1>2
<1>4. Silent(replay, kind, s) => new = Known(kind, s)
  BY ReplaySays DEF Known
<1> HIDE DEF new
<1>5. Told(incoming \o replay, seen, kind, s, new)
  BY <1>1, <1>3, <1>4, ToldMore
<1> QED
  BY <1>5 DEF new

(* A publish, of whomever.                                                  *)
LEMMA PublishTold ==
    ASSUME BrokerTypes, sessions[Me].open, NEW seen, NEW msg \in Word,
           NEW kind \in Kinds, NEW s \in Slugs,
           Told(incoming, seen, kind, s, Known(kind, s))
    PROVE  Told(incoming \o Mqtt!Delivered(Me, msg), seen, kind, s,
                IF kind \in sessions[Me].kinds
                THEN Mqtt!Retain(retained, msg)[<<kind, s>>] ELSE None)
<1> DEFINE new == IF kind \in sessions[Me].kinds
                  THEN Mqtt!Retain(retained, msg)[<<kind, s>>] ELSE None
           more == Mqtt!Delivered(Me, msg)
<1>1. incoming \in Seq(Word)
  BY DEF BrokerTypes
<1>2. more = IF msg.topic \in sessions[Me].kinds THEN <<msg>> ELSE <<>>
  BY DEF Mqtt!Delivered
<1>3. new = IF kind \in sessions[Me].kinds
            THEN (IF About(msg, kind, s) THEN msg.body ELSE retained[<<kind, s>>])
            ELSE None
  BY RetainedAfter DEF BrokerTypes
<1>4. DOMAIN <<msg>> = {1} /\ <<msg>>[1] = msg /\ <<msg>> \in Seq(Word) /\ <<>> \in Seq(Word)
  OBVIOUS
<1> HIDE DEF new, more
<1>5. more \in Seq(Word)
  BY <1>2, <1>4
<1>6. \A i \in DOMAIN more : more[i] = msg /\ msg.topic \in sessions[Me].kinds
  BY <1>2, <1>4
<1>7. \A i \in DOMAIN more : About(more[i], kind, s) => more[i].body = new
  BY <1>3, <1>6 DEF About
<1>8. Silent(more, kind, s) => new = Known(kind, s)
  <2> SUFFICES ASSUME Silent(more, kind, s) PROVE new = Known(kind, s)
    OBVIOUS
  <2>1. CASE kind \in sessions[Me].kinds
    <3>1. ~About(msg, kind, s)
      <4> SUFFICES ASSUME About(msg, kind, s) PROVE FALSE
        OBVIOUS
      <4>1. more = <<msg>>
        BY <1>2, <2>1 DEF About
      <4> QED
        BY <1>4, <4>1 DEF Silent
    <3> QED
      BY <1>3, <2>1, <3>1 DEF Known
  <2>2. CASE kind \notin sessions[Me].kinds
    BY <1>3, <2>2 DEF Known
  <2> QED
    BY <2>1, <2>2
<1>9. Told(incoming \o more, seen, kind, s, new)
  BY <1>1, <1>5, <1>7, <1>8, ToldMore
<1> QED
  BY <1>9 DEF new, more

(* The tool reads, and asks.                                                *)
LEMMA ReadsListing ==
    ASSUME MainInv, ListInv, Reads, args' = args
    PROVE  ListInv'
<1>1. BrokerTypes /\ ToolTypes
  BY DEF MainInv, MainTypes
<1>2. /\ stage = "reading" /\ incoming # <<>> /\ incoming' = Tail(incoming)
      /\ listing' = Collect(listing, Head(incoming))
      /\ UNCHANGED <<link, outbox, sessions, retained, stage, jobs, smooth>>
  BY DEF Reads, storyVars
<1>3. ASSUME smooth, NEW kind \in Kinds, NEW s \in Slugs
      PROVE  Told(incoming', listing', kind, s, Known(kind, s)')
  <2>1. Told(incoming, listing, kind, s, Known(kind, s))
    BY <1>2, <1>3 DEF ListInv, HearFacts, Listening
  <2>2. Known(kind, s)' = Known(kind, s)
    BY <1>2 DEF Known
  <2>3. incoming \in Seq(Word) /\ listing \in Listing
    BY <1>1 DEF BrokerTypes, ToolTypes
  <2> QED
    BY <1>2, <2>1, <2>2, <2>3, ToldRead
<1>4. HearFacts'
  BY <1>2, <1>3 DEF HearFacts
<1>5. AskFacts'
  BY <1>2 DEF ListInv, AskFacts, AskedFor
<1>6. ListsOnly' /\ OpenFacts' /\ FreshFacts'
  BY <1>2 DEF ListInv, ListsOnly, OpenFacts, FreshFacts
<1> QED
  BY <1>4, <1>5, <1>6 DEF ListInv

LEMMA AsksListing ==
    ASSUME MainInv, ListInv, Asking, args' = args
    PROVE  ListInv'
<1>1. SessionTypes /\ ToolTypes /\ QueueFacts
  BY DEF MainInv, MainTypes
<1>2. /\ UNCHANGED <<link, sessions, retained, incoming, jobs, listing, smooth>>
      /\ \/ stage = "infos" /\ stage' = "switches"
         \/ stage = "switches" /\ stage' = "reading"
         \/ stage = "closing" /\ stage' = "joining"
  BY <1>1, AskingLemma
<1>3. ListsOnly' /\ OpenFacts' /\ FreshFacts'
  BY <1>2 DEF ListInv, ListsOnly, OpenFacts, FreshFacts, Listening
<1>4. HearFacts'
  <2>1. \A kind, s : Known(kind, s)' = Known(kind, s)
    BY <1>2 DEF Known
  <2> QED
    BY <1>2, <2>1 DEF ListInv, HearFacts, Listening
<1>5. ASSUME NEW msg, task # "ended", Mqtt!Request(msg)
      PROVE  /\ \E k \in DOMAIN outbox' : outbox'[k] = msg
             /\ \A kind : AskedFor(kind) => AskedFor(kind)'
  <2>1. outbox' = Append(outbox, msg) /\ outbox \in Seq(Request)
    BY <1>1, <1>5 DEF Mqtt!Request, SessionTypes
  <2>2. /\ Len(outbox) + 1 \in DOMAIN outbox' /\ outbox'[Len(outbox) + 1] = msg
        /\ \A k \in DOMAIN outbox : k \in DOMAIN outbox' /\ outbox'[k] = outbox[k]
    BY <2>1
  <2> QED
    BY <1>2, <2>2 DEF AskedFor
<1>6. CASE SubscribeInfos
  <2>1. stage = "infos" /\ stage' = "switches" /\ task # "ended"
        /\ Mqtt!Request(Mqtt!SubscribeTo("info"))
    BY <1>6 DEF SubscribeInfos, Goes, Asks
  <2>2. AskedFor("info")'
    BY <1>5, <2>1 DEF AskedFor
  <2> QED
    BY <1>3, <1>4, <2>1, <2>2 DEF ListInv, AskFacts
<1>7. CASE SubscribeSwitches
  <2>1. stage = "switches" /\ stage' = "reading" /\ task # "ended"
        /\ Mqtt!Request(Mqtt!SubscribeTo("enabled"))
    BY <1>7 DEF SubscribeSwitches, Goes, Asks
  <2>2. AskedFor("enabled")'
    BY <1>5, <2>1 DEF AskedFor
  <2>3. smooth => AskedFor("info")
    BY <2>1 DEF ListInv, AskFacts, Listening
  <2>4. smooth => AskedFor("info")'
    BY <1>5, <2>1, <2>3
  <2> QED
    BY <1>2, <1>3, <1>4, <2>1, <2>2, <2>4 DEF ListInv, AskFacts
<1>8. CASE AskDisconnect
  <2>1. stage' = "joining"
    BY <1>8 DEF AskDisconnect, Goes
  <2> QED
    BY <1>3, <1>4, <2>1 DEF ListInv, AskFacts, Listening
<1> QED
  BY <1>6, <1>7, <1>8 DEF Asking

(* Connected, and the steps after which the tool does not listen.           *)
LEMMA PassesListing ==
    ASSUME MainInv, ListInv, Passing, args' = args
    PROVE  ListInv'
<1>1. ToolTypes /\ QueueFacts
  BY DEF MainInv, MainTypes
<1>2. /\ UNCHANGED <<link, outbox, sessions, retained, incoming, jobs, listing, smooth>>
      /\ \/ stage = "connecting" /\ state = "Connected"
            /\ stage' = IF Head(jobs).kind = "list" THEN "infos" ELSE "publishing"
         \/ stage \in {"reading", "publishing"} /\ stage' = "closing"
         \/ stage = "next" /\ stage' = "exited"
  BY PassLemma
<1>3. OpenFacts' /\ FreshFacts' /\ AskFacts'
  BY <1>2 DEF ListInv, OpenFacts, FreshFacts, AskFacts
<1>4. CASE stage' \notin Listening
  BY <1>2, <1>3, <1>4 DEF ListInv, ListsOnly, HearFacts
<1>5. CASE stage' \in Listening
  <2>1. stage = "connecting" /\ Head(jobs).kind = "list"
    BY <1>2, <1>5 DEF Listening
  <2>2. jobs # <<>> /\ jobs \in Seq(Task) /\ Head(jobs) = jobs[1] /\ 1 \in DOMAIN jobs
    BY <1>1, <2>1, EmptySeq DEF ToolTypes, Connections
  <2>3. args.list_devices
    BY <2>1, <2>2 DEF ListInv, ListsOnly
  <2>4. listing = Nothing /\ incoming = <<>> /\ sessions[Me].kinds = {}
    BY <2>1, <2>2, <2>3 DEF ListInv, FreshFacts
  <2>5. ASSUME NEW kind \in Kinds, NEW s \in Slugs
        PROVE  Told(incoming', listing', kind, s, Known(kind, s)')
    <3>1. Known(kind, s)' = None
      BY <1>2, <2>4 DEF Known
    <3>2. DOMAIN incoming' = {}
      BY <1>2, <2>4
    <3>3. Shows(listing', kind, s, None)
      BY <1>2, <2>4 DEF Shows, Nothing
    <3> QED
      BY <3>1, <3>2, <3>3 DEF Told, LastSays
  <2>6. HearFacts'
    BY <2>5 DEF HearFacts
  <2>7. ListsOnly'
    BY <1>2, <2>3 DEF ListInv, ListsOnly
  <2> QED
    BY <1>3, <2>6, <2>7 DEF ListInv
<1> QED
  BY <1>4, <1>5

(* A connection begins or ends.                                             *)
LEMMA TurnsListing ==
    ASSUME MainInv, ListInv, ConnectFirst \/ Closing \/ Failing, args' = args
    PROVE  ListInv'
<1>1. ToolTypes
  BY DEF MainInv, MainTypes
<1>2. CASE ConnectFirst
  <2>1. /\ stage = "next" /\ stage' = "connecting" /\ jobs # <<>>
        /\ incoming' = <<>> /\ link' = "down"
        /\ UNCHANGED <<sessions, jobs, listing>>
    BY <1>2 DEF ConnectFirst, Goes, Mqtt!Open, Mqtt!Spawn
  <2> QED
    BY <2>1 DEF ListInv, ListsOnly, FreshFacts, OpenFacts, HearFacts, AskFacts, Listening
<1>3. CASE Closing \/ Failing
  <2>1. /\ stage \in {"connecting", "infos", "switches", "publishing", "joining"}
        /\ stage' = "next" /\ jobs' = Tail(jobs) /\ link' = "down"
    BY <1>3, LeaveLemma
  <2>2. jobs \in Seq(Task) /\ jobs # <<>>
    BY <1>1, <2>1 DEF ToolTypes, Connections
  <2>3. args.list_devices => jobs' = <<>>
    <3>1. args.list_devices => jobs = <<ListDevices>>
      BY <2>2 DEF ListInv, ListsOnly
    <3>2. Tail(<<ListDevices>>) = <<>>
      <4>1. <<ListDevices>> \in Seq({ListDevices}) /\ <<ListDevices>> # <<>>
            /\ Len(<<ListDevices>>) = 1
        OBVIOUS
      <4>2. Tail(<<ListDevices>>) \in Seq({ListDevices}) /\ Len(Tail(<<ListDevices>>)) = 0
        BY <4>1, HeadTailProperties
      <4> QED
        BY <4>2, EmptySeq
    <3> QED
      BY <2>1, <3>1, <3>2
  <2>4. ~args.list_devices => \A i \in DOMAIN jobs' : jobs'[i].kind = "publish"
    <3> SUFFICES ASSUME ~args.list_devices, NEW i \in DOMAIN Tail(jobs)
                 PROVE  Tail(jobs)[i].kind = "publish"
      BY <2>1
    <3>1. i + 1 \in DOMAIN jobs /\ Tail(jobs)[i] = jobs[i + 1]
      BY <2>2, TailLemma
    <3> QED
      BY <3>1 DEF ListInv, ListsOnly
  <2>5. ListsOnly' /\ FreshFacts'
    BY <2>1, <2>3, <2>4 DEF ListsOnly, FreshFacts, Listening
  <2> QED
    BY <2>1, <2>5 DEF ListInv, OpenFacts, HearFacts, AskFacts, Listening
<1> QED
  BY <1>2, <1>3

(* A publish arrives while the tool listens.                                *)
LEMMA HearsPublish ==
    ASSUME BrokerTypes, HearFacts, NEW msg \in Word, sessions[Me].open,
           retained' = Mqtt!Retain(retained, msg),
           incoming' = incoming \o Mqtt!Delivered(Me, msg),
           UNCHANGED <<sessions, listing, stage>>, smooth' => smooth
    PROVE  HearFacts'
<1> SUFFICES ASSUME stage \in Listening, smooth, NEW kind \in Kinds, NEW s \in Slugs
             PROVE  Told(incoming', listing', kind, s, Known(kind, s)')
  BY DEF HearFacts
<1>1. Told(incoming, listing, kind, s, Known(kind, s))
  BY DEF HearFacts
<1>2. Told(incoming \o Mqtt!Delivered(Me, msg), listing, kind, s,
           IF kind \in sessions[Me].kinds
           THEN Mqtt!Retain(retained, msg)[<<kind, s>>] ELSE None)
  BY <1>1, PublishTold
<1>3. Known(kind, s)' = IF kind \in sessions[Me].kinds
                        THEN Mqtt!Retain(retained, msg)[<<kind, s>>] ELSE None
  BY DEF Known
<1> QED
  BY <1>2, <1>3

(* A will has a topic of its own.                                           *)
LEMMA WillLemma ==
    ASSUME BrokerTypes
    PROVE  Mqtt!Retain(retained, [topic |-> "cli-lwt", slug |-> None, body |-> "offline"])
             = retained
  BY RetainLemma DEF BrokerTypes

LEMMA OutsideListing ==
    ASSUME MainInv, ListInv, Outside, args' = args
    PROVE  ListInv'
<1>1. BrokerTypes /\ ToolTypes /\ QueueFacts /\ sessions[Me] \in Session
  BY DEF MainInv, MainTypes, BrokerTypes
<1>2. /\ UNCHANGED <<stage, jobs, listing, outbox>>
      /\ smooth' => smooth /\ link' = link
      /\ link' # link => link = "up" /\ link' = "broken"
  BY <1>1, OutsideLemma DEF toolVars
<1>3. ListsOnly'
  BY <1>2 DEF ListInv, ListsOnly
<1>4. stage \in Listening /\ smooth => link = "up"
  BY <1>1 DEF QueueFacts, Listening, Connections
<1>5. ASSUME UNCHANGED <<sessions, retained, incoming>> PROVE ListInv'
  <2>1. \A kind, s : Known(kind, s)' = Known(kind, s)
    BY <1>5 DEF Known
  <2>2. HearFacts'
    BY <1>2, <1>5, <2>1 DEF ListInv, HearFacts
  <2>3. AskFacts'
    BY <1>2, <1>5 DEF ListInv, AskFacts, AskedFor
  <2>4. FreshFacts' /\ OpenFacts'
    BY <1>2, <1>5, <1>3 DEF ListInv, FreshFacts, OpenFacts
  <2> QED
    BY <1>3, <2>2, <2>3, <2>4 DEF ListInv
<1>6. ASSUME sessions' = [sessions EXCEPT ![Me] = Mqtt!Closed], incoming' = incoming,
             link' # "up", smooth' => link # "up"
      PROVE  ListInv'
  <2>1. sessions'[Me].kinds = {}
    BY <1>1, <1>6 DEF Mqtt!Closed, BrokerTypes
  <2>2. FreshFacts'
    BY <1>2, <1>6, <2>1 DEF ListInv, FreshFacts
  <2>3. HearFacts' /\ AskFacts'
    BY <1>2, <1>4, <1>6 DEF HearFacts, AskFacts
  <2> QED
    BY <1>3, <1>6, <2>2, <2>3 DEF ListInv, OpenFacts
<1>7. CASE LeakedConnects
  <2>1. /\ sessions' = [sessions EXCEPT ![Me] = Mqtt!Closed] /\ incoming' = incoming
        /\ link' = "broken" /\ ~smooth'
    BY <1>7 DEF LeakedConnects, Mqtt!Break
  <2> QED
    BY <1>6, <2>1
<1>8. CASE CliCut
  BY <1>5, <1>8 DEF CliCut, Mqtt!Cut
<1>9. CASE CliMend
  BY <1>5, <1>9 DEF CliMend, Mqtt!Mend
<1>10. CASE CliExpires
  <2>1. /\ sessions' = [sessions EXCEPT ![Me] = Mqtt!Closed] /\ incoming' = incoming
        /\ link' = link /\ link # "up"
    BY <1>10 DEF CliExpires, Mqtt!Expire
  <2> QED
    BY <1>6, <2>1
<1>11. ASSUME NEW msg \in OthersWords, OthersPublish(msg) PROVE ListInv'
  <2>1. msg \in Word
    BY DEF OthersWords, Word
  <2>2. /\ retained' = Mqtt!Retain(retained, msg) /\ sessions' = sessions /\ link' = link
        /\ incoming' = IF link = "up" THEN incoming \o Mqtt!Delivered(Me, msg) ELSE incoming
    BY <1>11 DEF OthersPublish, Mqtt!OthersPublish, Mqtt!sessionVars
  <2>3. HearFacts'
    <3>1. CASE stage \in Listening /\ smooth
      <4>1. link = "up" /\ sessions[Me].open
        BY <1>4, <3>1 DEF ListInv, OpenFacts
      <4> QED
        BY <1>1, <1>2, <2>1, <2>2, <4>1, HearsPublish DEF ListInv
    <3>2. CASE ~(stage \in Listening /\ smooth)
      BY <1>2, <3>2 DEF HearFacts
    <3> QED
      BY <3>1, <3>2
  <2>4. FreshFacts'
    <3> SUFFICES ASSUME args.list_devices, jobs # <<>>, stage \in {"next", "connecting"}
                 PROVE  listing' = Nothing /\ incoming' = <<>> /\ sessions'[Me].kinds = {}
      BY <1>2 DEF FreshFacts
    <3>1. listing = Nothing /\ incoming = <<>> /\ sessions[Me].kinds = {}
      BY DEF ListInv, FreshFacts
    <3>2. Mqtt!Delivered(Me, msg) = <<>>
      BY <3>1 DEF Mqtt!Delivered
    <3>3. incoming' = <<>>
      BY <2>2, <3>1, <3>2
    <3> QED
      BY <1>2, <2>2, <3>1, <3>3
  <2>5. AskFacts' /\ OpenFacts'
    BY <1>2, <2>2 DEF ListInv, AskFacts, AskedFor, OpenFacts
  <2> QED
    BY <1>3, <2>3, <2>4, <2>5 DEF ListInv
<1> QED
  BY <1>7, <1>8, <1>9, <1>10, <1>11 DEF Outside

(* The event task.                                                          *)
LEMMA EventListing ==
    ASSUME MainInv, ListInv, CliEventTask, args' = args
    PROVE  ListInv'
<1>1. /\ SessionTypes /\ BrokerTypes /\ ToolTypes /\ QueueFacts
      /\ sessions[Me] \in Session
  BY DEF MainInv, MainTypes, BrokerTypes
<1>2. /\ UNCHANGED <<stage, jobs, listing, smooth>> /\ Mqtt!EventTask(Me)
      /\ stage \notin {"next", "exited"}
  BY DEF CliEventTask, toolVars
<1>3. ListsOnly'
  BY <1>2 DEF ListInv, ListsOnly
<1>4. stage \in Listening /\ smooth => link = "up" /\ task = "polling"
  BY <1>1 DEF QueueFacts, Listening, Connections
<1>5. ASSUME UNCHANGED <<sessions, retained, incoming>>, link' = "up" => link = "up",
             stage \in Listening /\ smooth => UNCHANGED outbox
      PROVE  ListInv'
  <2>1. \A kind, s : Known(kind, s)' = Known(kind, s)
    BY <1>5 DEF Known
  <2>2. HearFacts'
    BY <1>2, <1>5, <2>1 DEF ListInv, HearFacts
  <2>3. AskFacts'
    BY <1>2, <1>5 DEF ListInv, AskFacts, AskedFor
  <2>4. FreshFacts' /\ OpenFacts'
    BY <1>2, <1>5 DEF ListInv, FreshFacts, OpenFacts
  <2> QED
    BY <1>3, <2>2, <2>3, <2>4 DEF ListInv
<1>6. CASE Mqtt!Connect(Me)
  <2>1. /\ sessions' = [sessions EXCEPT ![Me] = [open |-> TRUE, kinds |-> {}]]
        /\ link = "down" /\ incoming' = incoming
    BY <1>6 DEF Mqtt!Connect, Mqtt!ConnAck, Mqtt!Accept
  <2>2. sessions'[Me].open /\ sessions'[Me].kinds = {}
    BY <1>1, <2>1 DEF BrokerTypes
  <2>3. FreshFacts' /\ OpenFacts'
    BY <1>2, <2>1, <2>2 DEF ListInv, FreshFacts, OpenFacts
  <2>4. HearFacts' /\ AskFacts'
    BY <1>2, <1>4, <2>1 DEF HearFacts, AskFacts
  <2> QED
    BY <1>3, <2>3, <2>4 DEF ListInv
<1>7. CASE Mqtt!ConnectionFails
  <2>1. UNCHANGED <<sessions, retained, incoming>> /\ link' = "down" /\ link # "up"
    BY <1>7 DEF Mqtt!ConnectionFails, Mqtt!PollFails
  <2> QED
    BY <1>4, <1>5, <2>1
<1>8. CASE Mqtt!Retries
  BY <1>5, <1>8 DEF Mqtt!Retries, Mqtt!Wake
<1>9. CASE Mqtt!TransmitInVain
  <2>1. UNCHANGED <<sessions, retained, incoming, link>> /\ link = "broken"
    BY <1>9 DEF Mqtt!TransmitInVain
  <2> QED
    BY <1>4, <1>5, <2>1
<1>10. CASE Mqtt!Transmit(Me)
  <2> DEFINE msg == Head(outbox)
  <2>1. /\ link = "up" /\ outbox # <<>> /\ outbox' = Tail(outbox)
    BY <1>10 DEF Mqtt!Transmit, Mqtt!Send
  <2>2. /\ Len(outbox) \in Nat \ {0} /\ DOMAIN outbox = 1..Len(outbox)
        /\ DOMAIN outbox' = 1..(Len(outbox) - 1)
        /\ \A k \in 1..(Len(outbox) - 1) : outbox'[k] = outbox[k + 1]
        /\ msg = outbox[1] /\ 1 \in DOMAIN outbox /\ msg \in Request
    BY <1>1, <2>1, TailLemma DEF SessionTypes
  <2>3. sessions[Me].open
    BY <2>1 DEF ListInv, OpenFacts
  <2>4. stage # "connecting"
    BY <1>1, <2>1 DEF QueueFacts
  <2>5. FreshFacts'
    BY <1>2, <2>4 DEF FreshFacts
  <2> HIDE DEF msg
  <2>6. \A req, k : k \in DOMAIN outbox /\ outbox[k] = req /\ req # msg =>
           \E j \in DOMAIN outbox' : outbox'[j] = req
    <3> SUFFICES ASSUME NEW k \in DOMAIN outbox, outbox[k] # msg
                 PROVE  \E j \in DOMAIN outbox' : outbox'[j] = outbox[k]
      OBVIOUS
    <3>1. k - 1 \in 1..(Len(outbox) - 1) /\ (k - 1) + 1 = k
      BY <2>2
    <3> QED
      BY <2>2, <3>1
  <2>7. CASE msg.topic = "subscribe"
    <3> DEFINE sort == msg.body
    <3>1. sort \in Kinds /\ msg = Mqtt!SubscribeTo(sort)
      BY <2>2, <2>7, RequestLemma DEF Request, SubInfo, SubEnabled, Kinds
    <3>2. /\ sessions' = [sessions EXCEPT ![Me].kinds = @ \cup {sort}]
          /\ retained' = retained /\ link' = link
          /\ \E replay \in Mqtt!Replay(sort) : incoming' = incoming \o replay
      BY <1>10, <2>7 DEF Mqtt!Transmit, Mqtt!Subscribe, msg
    <3>3. sessions'[Me].kinds = sessions[Me].kinds \cup {sort} /\ sessions'[Me].open
      BY <1>1, <2>3, <3>2 DEF BrokerTypes, Session
    <3> HIDE DEF sort
    <3>4. PICK replay \in Mqtt!Replay(sort) : incoming' = incoming \o replay
      BY <3>2
    <3>5. ASSUME stage \in Listening, smooth, NEW kind \in Kinds, NEW s \in Slugs
          PROVE  Told(incoming', listing', kind, s, Known(kind, s)')
      <4>1. Told(incoming, listing, kind, s, Known(kind, s))
        BY <3>5 DEF ListInv, HearFacts
      <4>2. Told(incoming \o replay, listing, kind, s,
                 IF kind \in sessions[Me].kinds \cup {sort}
                 THEN retained[<<kind, s>>] ELSE None)
        BY <1>1, <3>1, <4>1, SubscribeTold
      <4>3. Known(kind, s)' = IF kind \in sessions[Me].kinds \cup {sort}
                              THEN retained[<<kind, s>>] ELSE None
        BY <3>2, <3>3 DEF Known
      <4> QED
        BY <1>2, <3>4, <4>2, <4>3
    <3>6. HearFacts'
      BY <1>2, <3>5 DEF HearFacts
    <3>7. \A kind : AskedFor(kind) => AskedFor(kind)'
      <4> SUFFICES ASSUME NEW kind, AskedFor(kind), kind \notin sessions[Me].kinds \cup {sort}
                   PROVE  \E j \in DOMAIN outbox' : outbox'[j] = Mqtt!SubscribeTo(kind)
        BY <3>3 DEF AskedFor
      <4>1. PICK k \in DOMAIN outbox : outbox[k] = Mqtt!SubscribeTo(kind)
        BY DEF AskedFor
      <4>2. Mqtt!SubscribeTo(kind).body = kind
        BY DEF Mqtt!SubscribeTo
      <4>3. outbox[k] # msg
        BY <4>1, <4>2 DEF sort
      <4> QED
        BY <2>6, <4>1, <4>3
    <3>8. AskFacts'
      BY <1>2, <3>7 DEF ListInv, AskFacts
    <3> QED
      BY <1>3, <2>5, <3>3, <3>6, <3>8 DEF ListInv, OpenFacts
  <2>8. CASE msg.topic = "disconnect"
    <3>1. msg = Bye
      BY <2>2, <2>8, RequestLemma DEF Request
    <3>2. stage = "joining"
      BY <1>1, <2>2, <3>1 DEF QueueFacts
    <3>3. link' = "broken"
      BY <1>10, <2>8 DEF Mqtt!Transmit, msg
    <3> QED
      BY <1>2, <1>3, <2>5, <3>2, <3>3 DEF ListInv, OpenFacts, HearFacts, AskFacts, Listening
  <2>9. CASE msg.topic \notin {"subscribe", "disconnect"}
    <3>1. msg \in Word
      BY <2>2, <2>9, RequestLemma DEF Request
    <3>2. /\ retained' = Mqtt!Retain(retained, msg) /\ link' = link
          /\ incoming' = incoming \o Mqtt!Delivered(Me, msg)
          /\ sessions' = sessions
      BY <1>10, <2>9 DEF Mqtt!Transmit, msg
    <3>3. HearFacts'
      BY <1>1, <1>2, <2>3, <3>1, <3>2, HearsPublish DEF ListInv
    <3>4. \A kind : AskedFor(kind) => AskedFor(kind)'
      <4> SUFFICES ASSUME NEW kind, NEW k \in DOMAIN outbox,
                          outbox[k] = Mqtt!SubscribeTo(kind)
                   PROVE  \E j \in DOMAIN outbox' : outbox'[j] = Mqtt!SubscribeTo(kind)
        BY <3>2 DEF AskedFor
      <4>1. Mqtt!SubscribeTo(kind).topic = "subscribe"
        BY DEF Mqtt!SubscribeTo
      <4>2. outbox[k] # msg
        BY <2>9, <4>1
      <4> QED
        BY <2>6, <4>2
    <3>5. AskFacts'
      BY <1>2, <3>4 DEF ListInv, AskFacts
    <3> QED
      BY <1>3, <2>3, <2>5, <3>2, <3>3, <3>5 DEF ListInv, OpenFacts
  <2> QED
    BY <2>7, <2>8, <2>9
<1> QED
  BY <1>2, <1>6, <1>7, <1>8, <1>9, <1>10 DEF Mqtt!EventTask

LEMMA ListStep == MainInv /\ ListInv /\ [MainNext]_mainVars => ListInv'
<1> SUFFICES ASSUME MainInv, ListInv, [MainNext]_mainVars PROVE ListInv'
  OBVIOUS
<1>1. args' = args
  BY StepCases
<1>2. CASE PublishNext
  <2>1. /\ UNCHANGED <<link, sessions, jobs, listing, stage, smooth, incoming>>
        /\ stage = "publishing"
    BY <1>2 DEF PublishNext, Asks
  <2> QED
    BY <1>1, <2>1 DEF ListInv, ListsOnly, FreshFacts, OpenFacts, HearFacts, AskFacts, Listening
<1>3. CASE UNCHANGED mainVars
  <2>1. /\ UNCHANGED <<link, outbox, sessions, retained, incoming>>
        /\ UNCHANGED <<stage, jobs, listing, smooth>>
    BY <1>3 DEF mainVars, cliVars, linkVars, toolVars, storyVars
  <2>2. \A kind, s : Known(kind, s)' = Known(kind, s)
    BY <2>1 DEF Known
  <2>3. HearFacts'
    BY <2>1, <2>2 DEF ListInv, HearFacts
  <2> QED
    BY <1>1, <2>1, <2>3
       DEF ListInv, ListsOnly, FreshFacts, OpenFacts, AskFacts, AskedFor
<1> QED
  BY <1>1, <1>2, <1>3, StepCases, TurnsListing, PassesListing, AsksListing, ReadsListing,
     EventListing, OutsideListing

LEMMA ListInitially == MainInit => ListInv
<1> SUFFICES ASSUME MainInit PROVE ListInv
  OBVIOUS
<1>1. PICK todo, code, held : /\ CliInit(todo, code, held)
                              /\ todo \in {<<>>, JobsOf(args)}
  <2>1. mode = into_runtime(args) /\ mode \in {"tool", "daemon", "rejected"}
    BY DEF MainInit, into_runtime
  <2>2. \E held : CASE mode = "tool"     -> CliInit(JobsOf(args), 0, held)
                    [] mode = "daemon"   -> CliInit(<<>>, 0, held)
                    [] mode = "rejected" -> CliInit(<<>>, 2, held)
    BY DEF MainInit
  <2>3. PICK held : CASE mode = "tool"     -> CliInit(JobsOf(args), 0, held)
                      [] mode = "daemon"   -> CliInit(<<>>, 0, held)
                      [] mode = "rejected" -> CliInit(<<>>, 2, held)
    BY <2>2
  <2>4. CASE mode = "tool"
    BY <2>3, <2>4
  <2>5. CASE mode = "daemon"
    BY <2>3, <2>5
  <2>6. CASE mode = "rejected"
    BY <2>3, <2>6
  <2> QED
    BY <2>1, <2>4, <2>5, <2>6
<1>2. /\ link = "down" /\ incoming = <<>> /\ jobs = todo /\ listing = Nothing
      /\ sessions = [c \in {Me} |-> [open |-> FALSE, kinds |-> {}]]
      /\ stage \in {"next", "exited"}
  BY <1>1 DEF CliInit, Mqtt!ConnectionInit, Mqtt!SessionInit, Mqtt!Closed
<1>3. ListsOnly
  <2>1. args.list_devices => jobs \in {<<>>, <<ListDevices>>}
    BY <1>1, <1>2 DEF JobsOf
  <2>2. ~args.list_devices => \A i \in DOMAIN jobs : jobs[i].kind = "publish"
    <3> SUFFICES ASSUME ~args.list_devices, jobs # <<>>
                 PROVE  \A i \in DOMAIN jobs : jobs[i].kind = "publish"
      OBVIOUS
    <3> DEFINE Publishing == [kind : {"publish"}, slugs : {args.enable_device,
                              args.disable_device, args.remove_device},
                              body : {"on", "off", None}]
               A == IF args.enable_device = <<>> THEN <<>> ELSE <<Job("on", args.enable_device)>>
               B == IF args.disable_device = <<>> THEN <<>> ELSE <<Job("off", args.disable_device)>>
               C == IF args.remove_device = <<>> THEN <<>> ELSE <<Job(None, args.remove_device)>>
    <3>1. A \in Seq(Publishing) /\ B \in Seq(Publishing) /\ C \in Seq(Publishing)
      <4>1. /\ Job("on", args.enable_device) \in Publishing
            /\ Job("off", args.disable_device) \in Publishing
            /\ Job(None, args.remove_device) \in Publishing
        BY DEF Job
      <4> HIDE DEF Publishing
      <4>2. \A job \in Publishing : <<job>> \in Seq(Publishing)
        OBVIOUS
      <4>3. <<>> \in Seq(Publishing)
        OBVIOUS
      <4> QED
        BY <4>1, <4>2, <4>3
    <3>2. jobs = A \o B \o C
      BY <1>1, <1>2 DEF JobsOf, Manage
    <3> HIDE DEF A, B, C
    <3>3. jobs \in Seq(Publishing)
      BY <3>1, <3>2, ConcatProperties
    <3>4. \A i \in DOMAIN jobs : jobs[i] \in Publishing
      <4> HIDE DEF Publishing
      <4>1. DOMAIN jobs = 1..Len(jobs)
        BY <3>3
      <4> QED
        BY <3>3, <4>1, ElementOfSeq
    <3> QED
      BY <3>4
  <2> QED
    BY <1>2, <2>1, <2>2 DEF ListsOnly, Listening
<1> QED
  BY <1>2, <1>3 DEF ListInv, FreshFacts, OpenFacts, HearFacts, AskFacts, Listening

(* A listing that is read to its end, with nothing on the way, is what the  *)
(* broker retains.                                                          *)
LEMMA ListedIsRetained ==
    ASSUME MainInv, ListInv, StopsReading, smooth, outbox = <<>>, incoming = <<>>,
           NEW s \in Slugs
    PROVE  /\ s \in listing.infos <=> retained[<<"info", s>>] # None
           /\ listing.enabled[s] = retained[<<"enabled", s>>]
<1>1. stage = "reading"
  BY DEF StopsReading, Goes
<1>2. DOMAIN outbox = {} /\ DOMAIN incoming = {}
  OBVIOUS
<1>3. \A kind \in Kinds : Told(incoming, listing, kind, s, Known(kind, s))
  BY <1>1 DEF ListInv, HearFacts, Listening
<1>4. "info" \in sessions[Me].kinds /\ "enabled" \in sessions[Me].kinds
  BY <1>1, <1>2 DEF ListInv, AskFacts, AskedFor, Listening
<1>5. \A kind \in Kinds : Shows(listing, kind, s, retained[<<kind, s>>])
  BY <1>2, <1>3, <1>4 DEF Told, Silent, Known, Kinds
<1> QED
  BY <1>5 DEF Shows, Kinds

-----------------------------------------------------------------------------
(* The results.                                                             *)

(* The tool, its session and the broker are well typed; exactly a rejected  *)
(* command line ends with code 2, and there is an event task exactly while  *)
(* there is a connection.                                                   *)
THEOREM MainTypeCorrect == MainSpec => []MainTypeOK
<1>1. MainInv => MainTypeOK
  <2> SUFFICES ASSUME MainInv PROVE MainTypeOK
    OBVIOUS
  <2>1. SessionTypes /\ BrokerTypes /\ ToolTypes /\ ModeTypes
    BY DEF MainInv, MainTypes
  <2>2. Mqtt!SessionTypeOK
    BY <2>1 DEF SessionTypes, Mqtt!SessionTypeOK
  <2>3. Mqtt!BrokerTypeOK
    <3>1. {"info", "enabled"} \subseteq {t[1] : t \in RetainedTopics}
      <4>1. PICK s : s \in Slugs
        BY SlugsAssumption
      <4>2. <<"info", s>> \in RetainedTopics /\ <<"enabled", s>> \in RetainedTopics
        BY <4>1 DEF RetainedTopics
      <4>3. <<"info", s>>[1] = "info" /\ <<"enabled", s>>[1] = "enabled"
        OBVIOUS
      <4> QED
        BY <4>2, <4>3
    <3>2. sessions[Me].open \in BOOLEAN /\ sessions[Me].kinds \subseteq {"info", "enabled"}
      BY <2>1 DEF BrokerTypes, Session
    <3>3. net \in {"up", "down", "refusing"} /\ DOMAIN retained = RetainedTopics
      BY <2>1 DEF BrokerTypes
    <3> QED
      BY <3>1, <3>2, <3>3 DEF Mqtt!BrokerTypeOK
  <2>4. CliTypeOK
    BY <2>1, <2>2, <2>3 DEF CliTypeOK, ToolTypes, ModeTypes, Connections, Listing
  <2> QED
    BY <2>1, <2>4 DEF MainTypeOK, ModeTypes
<1> QED
  BY <1>1, MainInvariance, PTL

(* The commands arrive in the order of the command line, each at most once, *)
(* whatever breaks; unless something breaks, what was confirmed arrives,    *)
(* and exit code 0 says that everything did.                                *)
THEOREM CommandsArriveInTheirOrder == MainSpec => []CommandsArriveInOrder
<1>1. MainInv => CommandsArriveInOrder
  <2> SUFFICES ASSUME MainInv, mode = "tool"
               PROVE  /\ IsSubsequence(arrived, Wanted(args))
                      /\ stage = "exited" /\ smooth =>
                            /\ arrived = asked
                            /\ rc = 0 => arrived = Wanted(args)
    BY DEF CommandsArriveInOrder
  <2>1. /\ ToolTypes /\ ModeTypes /\ QueueFacts
        /\ JobFacts /\ OrderFacts /\ SmoothFacts /\ AskedFacts
    BY DEF MainInv, MainTypes, ToolInv
  <2>2. /\ Wanted(args) \in Seq(Word) /\ Cursor \in 0..Len(Wanted(args))
        /\ jobs = <<>> => Cursor = Len(Wanted(args))
    BY <2>1, CursorLemma
  <2>3. IsSubsequence(arrived, Wanted(args))
    <3>1. PICK p \in [DOMAIN arrived -> 1..Cursor], q \in [Waiting -> 1..Cursor] : Places(p, q)
      BY <2>1 DEF OrderFacts
    <3>2. 1..Cursor \subseteq DOMAIN Wanted(args)
      BY <2>2
    <3>3. p \in [DOMAIN arrived -> DOMAIN Wanted(args)]
      BY <3>2
    <3> QED
      BY <3>1, <3>3 DEF Places, IsSubsequence
  <2>4. ASSUME stage = "exited", smooth PROVE arrived = asked
    <3>1. /\ Len(arrived) \in Nat /\ Len(asked) \in Nat
          /\ arrived \in Seq(Word) /\ asked \in Seq(Word)
      BY <2>1 DEF ToolTypes
    <3>2. Waiting = {}
      BY <2>1, <2>4 DEF QueueFacts, Waiting
    <3>3. /\ Len(arrived) <= Len(asked)
          /\ \A i \in DOMAIN arrived : arrived[i] = asked[i]
          /\ Waiting = 1..(Len(asked) - Len(arrived))
      BY <2>1, <2>4 DEF SmoothFacts
    <3>4. Len(asked) = Len(arrived)
      <4>1. 1 \notin 1..(Len(asked) - Len(arrived))
        BY <3>2, <3>3
      <4>2. Len(arrived) <= Len(asked)
        BY <3>3
      <4> QED
        BY <3>1, <4>1, <4>2
    <3> QED
      BY <3>1, <3>3, <3>4, SeqEqual
  <2>5. ASSUME stage = "exited", smooth, rc = 0 PROVE arrived = Wanted(args)
    <3>1. jobs = <<>>
      BY <2>1, <2>5 DEF JobFacts
    <3>2. /\ Len(asked) = Len(Wanted(args)) /\ asked \in Seq(Word)
          /\ \A i \in DOMAIN asked : asked[i] = Wanted(args)[i]
      BY <2>1, <2>2, <2>5, <3>1 DEF AskedFacts, ToolTypes
    <3>3. asked = Wanted(args)
      BY <2>2, <3>2, SeqEqual
    <3> QED
      BY <2>4, <2>5, <3>3
  <2> QED
    BY <2>3, <2>4, <2>5
<1> QED
  BY <1>1, MainInvariance, PTL

(* A listing that waited long enough, over a connection that held, is what  *)
(* the broker retains at that moment (list_devices, client.rs).             *)
THEOREM ListingsAreTrue == MainSpec => ListingIsTrue
<1>1. MainInit => ListInv
  BY ListInitially
<1>2. MainInv /\ ListInv /\ [MainNext]_mainVars => ListInv'
  BY ListStep
<1>3. MainInv /\ ListInv =>
         [ StopsReading /\ smooth /\ leaked = 0 /\ outbox = <<>> /\ incoming = <<>> =>
             \A s \in Slugs :
                /\ s \in listing.infos <=> retained[<<"info", s>>] # None
                /\ listing.enabled[s] = retained[<<"enabled", s>>] ]_cliVars
  BY ListedIsRetained
<1> QED
  BY <1>1, <1>2, <1>3, MainInvariance, PTL DEF MainSpec, ListingIsTrue
=============================================================================
