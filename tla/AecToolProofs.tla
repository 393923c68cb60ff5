---------------------------- MODULE AecToolProofs ----------------------------
(***************************************************************************)
(* The window and its native job, for any number of recordings, frames and *)
(* percent steps and any poll interval: cancels are prompt and only abort  *)
(* their own run, what can be played is complete, progress belongs to the  *)
(* run that is going on, and nothing unfinished is left between runs.      *)
(***************************************************************************)
EXTENDS AecTool, SequenceTheorems, TLAPS

Message ==
    [kind : {"progress"}, percent : 0 .. Percents]
      \cup [kind : {"done"}, rc : {"OK", "FAILED", "ABORTED"}]

TypeInv == ToolTypeOK /\ messages \in Seq(Message)

\* Where the call is and what belongs to it.
CallInv ==
    /\ _busy <=> job # NoRecording
    /\ pc # "off" => _busy
    /\ pc \in {"open", "create", "linear"} => i = 0 /\ linear = NoFile /\ late = 0
    /\ pc = "frame" => i < Frames
    /\ pc # "off" => last_percent = IF i = 0 THEN -1 ELSE Percent(i)

\* A cancel reaches the run it was made for, at most a poll interval later.
CancelInv ==
    /\ _busy /\ abort_flag = 1 => _cancelRequested
    /\ AbortWasAsked
    /\ late > 0 => abort_flag = 1
    /\ pc = "loop" => late <= IF i = 0 THEN 0 ELSE ((i - 1) % PollInterval) + 1
    /\ pc = "frame" => late <= i % PollInterval
    /\ CancelIsPrompt

\* The files of the run that is going on.
FilesInv ==
    /\ RestIsClean
    /\ _busy => \A f \in Files \ {Fallback, Fallback2} :
                    files[f] = "partial" => f = Out(job) \/ (f = Linear(job) /\ linear = f)
    /\ _busy /\ rc = "OK" /\ pc \in {"return", "off"} =>
         files[Out(job)] = "complete" /\ files[Linear(job)] # "partial"

PlayInv == (playOut => ~ _busy) /\ PlayableIsComplete

\* The messages: progress in order, then the return of the call.
MessagesInv ==
    /\ ~ _busy => messages = <<>>
    /\ _busy => shown = 0 \/ shown <= last_percent
    /\ \A k \in 1 .. Len(messages) :
         /\ messages[k].kind = "progress" =>
              /\ shown <= messages[k].percent /\ messages[k].percent <= last_percent
              /\ \A m \in 1 .. k - 1 : messages[m].kind = "progress"
                                         /\ messages[m].percent < messages[k].percent
         /\ messages[k].kind = "done" =>
              k = Len(messages) /\ pc = "off" /\ messages[k].rc = rc

IInv == TypeInv /\ CallInv /\ CancelInv /\ FilesInv /\ PlayInv /\ MessagesInv

-----------------------------------------------------------------------------
(* Arithmetic                                                              *)

\* A product grows with its factor.
LEMMA Product ==
    ASSUME NEW a \in Nat, NEW b \in Nat, NEW d \in Nat, a <= b
    PROVE  a * d <= b * d
  <1>1. PICK e \in Nat : b = a + e
    <2>1. b - a \in Nat /\ b = a + (b - a)
      OBVIOUS
    <2> QED
      BY <2>1
  <1>2. b * d = a * d + e * d /\ e * d \in Nat
    BY <1>1
  <1> QED
    BY <1>2

\* The percentage never exceeds its range and never falls.
LEMMA PercentFacts ==
    ASSUME NEW n \in 0 .. Frames, n > 0
    PROVE  /\ Percent(n) \in 0 .. Percents
           /\ \A k \in 1 .. n : Percent(k) <= Percent(n)
  <1>1. Frames \in Nat \ {0} /\ Percents \in Nat /\ n \in Nat
    BY FramesAssumption
  <1>2. ASSUME NEW x \in Nat, NEW y \in Nat, x <= y
        PROVE  /\ x \div Frames \in Nat
               /\ x \div Frames <= y \div Frames
    <2> DEFINE p == x \div Frames
               q == y \div Frames
    <2>1. /\ p \in Int /\ Frames * p <= x /\ x < Frames * (p + 1)
          /\ q \in Int /\ Frames * q <= y /\ y < Frames * (q + 1)
      BY <1>1, <1>2
    <2> HIDE DEF p, q
    <2>2. p \in Nat /\ q \in Nat
      <3>1. ASSUME NEW r \in Int, 0 < Frames * (r + 1), r < 0 PROVE FALSE
        <4>1. - (r + 1) \in Nat
          BY <3>1
        <4>2. Frames * (- (r + 1)) \in Nat
          BY <4>1, <1>1
        <4>3. Frames * (- (r + 1)) = - (Frames * (r + 1))
          BY <1>1
        <4> QED
          BY <3>1, <4>2, <4>3, <1>1
      <3>2. 0 < Frames * (p + 1) /\ 0 < Frames * (q + 1)
        BY <2>1, <1>1, <1>2
      <3> QED
        BY <2>1, <3>1, <3>2
    <2>3. ASSUME q + 1 <= p PROVE FALSE
      <3>1. (q + 1) * Frames <= p * Frames
        BY <1>1, <2>2, <2>3, Product
      <3> QED
        BY <1>1, <1>2, <2>1, <2>2, <3>1
    <2>4. p <= q
      BY <2>2, <2>3
    <2> QED
      BY <2>2, <2>4 DEF p, q
  <1>3. ASSUME NEW k \in 1 .. n PROVE Percent(k) <= Percent(n) /\ Percent(k) \in Nat
    <2>1. k * Percents \in Nat /\ n * Percents \in Nat /\ k * Percents <= n * Percents
      BY <1>1, Product
    <2> QED
      BY <1>2, <2>1 DEF Percent
  <1>4. Percent(n) <= Percents
    <2>1. n * Percents \in Nat /\ Frames * Percents \in Nat
            /\ n * Percents <= Frames * Percents
      BY <1>1, Product
    <2>2. Percent(n) <= (Frames * Percents) \div Frames
      BY <1>2, <2>1 DEF Percent
    <2>3. (Frames * Percents) \div Frames = Percents
      BY <1>1
    <2> QED
      BY <2>2, <2>3
  <1>5. n \in 1 .. n
    BY <1>1
  <1> QED
    BY <1>1, <1>3, <1>4, <1>5

\* Between two multiples of the poll interval remainders count up.
LEMMA PollFacts ==
    ASSUME NEW n \in Nat
    PROVE  /\ n % PollInterval \in 0 .. PollInterval - 1
           /\ n > 0 /\ n % PollInterval # 0 =>
                ((n - 1) % PollInterval) + 1 = n % PollInterval
  <1>1. PollInterval \in Nat \ {0}
    BY FramesAssumption
  <1> DEFINE p == PollInterval
             q == n \div p
             r == n % p
  <1>2. q \in Nat /\ r \in 0 .. p - 1 /\ n = p * q + r
    BY <1>1
  <1>3. ASSUME n > 0, r # 0 PROVE (n - 1) % p = r - 1
    <2> DEFINE e == (n - 1) \div p
               s == (n - 1) % p
    <2>1. e \in Int /\ s \in 0 .. p - 1 /\ n - 1 = p * e + s
      BY <1>1, <1>3
    <2> HIDE DEF p, q, r, e, s
    <2>2. p \in Nat \ {0}
      BY <1>1 DEF p
    <2>3. e \in Nat
      <3>1. ASSUME e < 0 PROVE FALSE
        <4>1. - (e + 1) \in Nat /\ p * (- (e + 1)) \in Nat
          BY <2>1, <2>2, <3>1
        <4>2. p * (- (e + 1)) = - (p * e) - p
          BY <2>1, <2>2
        <4> QED
          BY <1>3, <2>1, <2>2, <4>1, <4>2
      <3> QED
        BY <2>1, <3>1
    <2>4. ASSUME q + 1 <= e PROVE FALSE
      <3>1. (q + 1) * p <= e * p
        BY <1>2, <2>2, <2>3, <2>4, Product
      <3> QED
        BY <1>2, <2>1, <2>2, <2>3, <3>1
    <2>5. ASSUME e + 1 <= q PROVE FALSE
      <3>1. (e + 1) * p <= q * p
        BY <1>2, <2>2, <2>3, <2>5, Product
      <3> QED
        BY <1>2, <1>3, <2>1, <2>2, <2>3, <3>1
    <2>6. e = q
      BY <1>2, <2>3, <2>4, <2>5
    <2> QED
      BY <1>2, <2>1, <2>2, <2>6 DEF s
  <1> QED
    BY <1>2, <1>3

\* What the typing of the state says of each variable.
LEMMA TypeFacts ==
    ASSUME TypeInv
    PROVE  /\ Frames \in Nat /\ PollInterval \in Nat \ {0} /\ Percents \in Nat \ {0}
           /\ abort_flag \in {0, 1} /\ i \in 0 .. Frames /\ late \in Nat
           /\ rc \in {"OK", "FAILED", "ABORTED"}
           /\ job \in Recordings \cup {NoRecording}
           /\ last_percent \in -1 .. Percents /\ shown \in 0 .. Percents
           /\ _busy \in BOOLEAN /\ _cancelRequested \in BOOLEAN /\ playOut \in BOOLEAN
           /\ messages \in Seq(Message)
  BY FramesAssumption DEF TypeInv, ToolTypeOK, JobTypeOK

\* The files of different recordings and kinds have different names.
LEMMA NameFacts ==
    ASSUME NEW r \in Recordings
    PROVE  /\ Out(r) \in Files /\ Linear(r) \in Files /\ Out(r) # Linear(r)
           /\ Fallback \in Files /\ Fallback2 \in Files
           /\ {Out(r), Linear(r)} \cap {Fallback, Fallback2, NoFile} = {}
           /\ \A s \in Recordings : /\ Out(s) # Linear(r)
                                    /\ Out(s) = Out(r) => s = r
                                    /\ Linear(s) = Linear(r) => s = r
  <1>1. Out(r) \in Files /\ Linear(r) \in Files
    BY DEF Files, Out, Linear
  <1> QED
    BY <1>1, NamesAssumption DEF Files, Out, Linear, Fallback, Fallback2

\* A run has a recording.
LEMMA JobFacts ==
    ASSUME TypeInv, CallInv, _busy
    PROVE  job \in Recordings /\ job # NoRecording
  BY TypeFacts, NamesAssumption DEF CallInv

\* What a message carries.
LEMMA MessageFacts ==
    ASSUME NEW m \in Message
    PROVE  /\ m.kind \in {"progress", "done"}
           /\ m.kind = "progress" => m.percent \in 0 .. Percents
           /\ m.kind = "done" => m.rc \in {"OK", "FAILED", "ABORTED"}
  BY DEF Message

\* The first message and the ones behind it.
LEMMA FirstFacts ==
    ASSUME messages \in Seq(Message), messages # <<>>
    PROVE  /\ Len(messages) \in Nat \ {0} /\ Head(messages) = messages[1]
           /\ Head(messages) \in Message /\ 1 \in 1 .. Len(messages)
           /\ Tail(messages) \in Seq(Message)
           /\ Len(Tail(messages)) = Len(messages) - 1
           /\ \A k \in 1 .. Len(messages) - 1 :
                Tail(messages)[k] = messages[k + 1] /\ k + 1 \in 1 .. Len(messages)
  BY HeadTailProperties

\* A message posted behind the others.
LEMMA LastFacts ==
    ASSUME messages \in Seq(Message), NEW m \in Message
    PROVE  LET s == Append(messages, m)
           IN  /\ s \in Seq(Message) /\ Len(s) = Len(messages) + 1
               /\ s = messages \o <<m>>
               /\ s[Len(messages) + 1] = m
               /\ \A k \in 1 .. Len(messages) : s[k] = messages[k]
  BY AppendProperties

-----------------------------------------------------------------------------
\* The first state satisfies the invariant.
LEMMA InitIInv == Init => IInv
  <1> SUFFICES ASSUME Init PROVE IInv
    OBVIOUS
  <1> USE DEF Init, JobInit, ToolInit
  <1>1. TypeInv
    <2>1. /\ i \in 0 .. Frames /\ last_percent \in -1 .. Percents /\ late \in Nat
          /\ shown \in 0 .. Percents /\ messages \in Seq(Message)
      BY FramesAssumption
    <2>2. files \in [Files -> {"absent", "partial", "complete", "killed"}]
      OBVIOUS
    <2>3. {_busy, _cancelRequested, playOut} \subseteq BOOLEAN
      OBVIOUS
    <2> QED
      BY <2>1, <2>2, <2>3 DEF TypeInv, ToolTypeOK, JobTypeOK
  <1>2. CallInv /\ CancelInv /\ PlayInv
    BY FramesAssumption DEF CallInv, CancelInv, AbortWasAsked, CancelIsPrompt, PlayInv,
                            PlayableIsComplete
  <1>3. FilesInv
    BY DEF FilesInv, RestIsClean
  <1>4. MessagesInv
    BY DEF MessagesInv
  <1> QED
    BY <1>1, <1>2, <1>3, <1>4 DEF IInv

\* The user starts a run.
LEMMA StartStep ==
    ASSUME IInv, NEW r \in Recordings, StartClick(r) PROVE IInv'
  <1> USE DEF StartClick, Call, ResetCancel, PlayWhileBusy
  <1>0. /\ TypeInv /\ CallInv /\ CancelInv /\ FilesInv /\ PlayInv /\ MessagesInv
    BY DEF IInv
  <1>1. TypeInv'
    <2>1. files' \in [Files -> {"absent", "partial", "complete", "killed"}]
      BY <1>0 DEF TypeInv, ToolTypeOK, JobTypeOK
    <2>2. messages' \in Seq(Message)
      BY <1>0, TypeFacts
    <2>3. /\ abort_flag' \in {0, 1} /\ job' \in Recordings \cup {NoRecording}
          /\ pc' \in {"off", "open", "create", "linear", "loop", "frame", "close",
                      "return"}
          /\ rc' \in {"OK", "FAILED", "ABORTED"} /\ linear' \in Files \cup {NoFile}
      BY <1>0 DEF TypeInv, ToolTypeOK, JobTypeOK
    <2>4. /\ i' \in 0 .. Frames /\ last_percent' \in -1 .. Percents
          /\ late' \in Nat /\ shown' \in 0 .. Percents
      BY <1>0, TypeFacts
    <2>5. {_busy', _cancelRequested', playOut'} \subseteq BOOLEAN
      BY <1>0 DEF TypeInv, ToolTypeOK
    <2>6. {_lastOutPath', _lastLinearPath'} \subseteq Recordings \cup {NoRecording}
      BY <1>0 DEF TypeInv, ToolTypeOK, JobTypeOK
    <2> QED
      BY <2>1, <2>2, <2>3, <2>4, <2>5, <2>6 DEF TypeInv, ToolTypeOK, JobTypeOK
  <1>2. CallInv'
    BY <1>0, NamesAssumption DEF CallInv
  <1>3. CancelInv'
    BY <1>0, TypeFacts DEF CancelInv, AbortWasAsked, CancelIsPrompt
  <1>4. FilesInv'
    BY <1>0 DEF FilesInv, RestIsClean
  <1>5. PlayInv'
    BY <1>0 DEF PlayInv, PlayableIsComplete
  <1>6. MessagesInv'
    BY <1>0 DEF MessagesInv
  <1> QED
    BY <1>1, <1>2, <1>3, <1>4, <1>5, <1>6 DEF IInv

\* The user cancels it.
LEMMA CancelStep ==
    ASSUME IInv, CancelClick PROVE IInv'
  <1> USE DEF CancelClick, native
  <1>0. /\ TypeInv /\ CallInv /\ CancelInv /\ FilesInv /\ PlayInv /\ MessagesInv
    BY DEF IInv
  <1>1. TypeInv'
    BY <1>0 DEF TypeInv, ToolTypeOK, JobTypeOK
  <1>2. CallInv'
    BY <1>0 DEF CallInv
  <1>3. CancelInv'
    BY <1>0 DEF CancelInv, AbortWasAsked, CancelIsPrompt
  <1>4. FilesInv'
    BY <1>0 DEF FilesInv, RestIsClean
  <1>5. PlayInv'
    BY <1>0 DEF PlayInv, PlayableIsComplete
  <1>6. MessagesInv'
    BY <1>0 DEF MessagesInv
  <1> QED
    BY <1>1, <1>2, <1>3, <1>4, <1>5, <1>6 DEF IInv

\* A progress message is handled.
LEMMA ProgressStep ==
    ASSUME IInv, HandleProgress PROVE IInv'
  <1> USE DEF HandleProgress
  <1>0. /\ TypeInv /\ CallInv /\ CancelInv /\ FilesInv /\ PlayInv /\ MessagesInv
    BY DEF IInv
  <1>1. TypeInv'
    <2>1. files' \in [Files -> {"absent", "partial", "complete", "killed"}]
      BY <1>0 DEF TypeInv, ToolTypeOK, JobTypeOK
    <2>2. messages' \in Seq(Message)
      BY <1>0, TypeFacts
    <2>3. /\ abort_flag' \in {0, 1} /\ job' \in Recordings \cup {NoRecording}
          /\ pc' \in {"off", "open", "create", "linear", "loop", "frame", "close",
                      "return"}
          /\ rc' \in {"OK", "FAILED", "ABORTED"} /\ linear' \in Files \cup {NoFile}
      BY <1>0 DEF TypeInv, ToolTypeOK, JobTypeOK
    <2>4. /\ i' \in 0 .. Frames /\ last_percent' \in -1 .. Percents
          /\ late' \in Nat /\ shown' \in 0 .. Percents
      BY <1>0, TypeFacts, FirstFacts, MessageFacts
    <2>5. {_busy', _cancelRequested', playOut'} \subseteq BOOLEAN
      BY <1>0 DEF TypeInv, ToolTypeOK
    <2>6. {_lastOutPath', _lastLinearPath'} \subseteq Recordings \cup {NoRecording}
      BY <1>0 DEF TypeInv, ToolTypeOK, JobTypeOK
    <2> QED
      BY <2>1, <2>2, <2>3, <2>4, <2>5, <2>6 DEF TypeInv, ToolTypeOK, JobTypeOK
  <1>2. CallInv'
    BY <1>0 DEF CallInv
  <1>3. CancelInv'
    BY <1>0 DEF CancelInv, AbortWasAsked, CancelIsPrompt
  <1>4. FilesInv'
    BY <1>0 DEF FilesInv, RestIsClean
  <1>5. PlayInv'
    BY <1>0 DEF PlayInv, PlayableIsComplete
  <1>6. MessagesInv'
    <2> DEFINE n == Len(messages)
    <2>1. /\ messages[1].kind = "progress" /\ shown' = messages[1].percent
          /\ n \in Nat \ {0} /\ Len(messages') = n - 1
          /\ \A k \in 1 .. n - 1 : messages'[k] = messages[k + 1] /\ k + 1 \in 1 .. n
      BY <1>0, TypeFacts, FirstFacts
    <2>2. _busy /\ shown' <= last_percent
      <3>1. _busy /\ 1 \in 1 .. n
        <4>1. messages # <<>>
          OBVIOUS
        <4>2. 1 \in 1 .. n
          BY <2>1
        <4> QED
          BY <1>0, <4>1, <4>2 DEF MessagesInv
      <3>2. messages[1].percent <= last_percent
        BY <1>0, <2>1, <3>1 DEF MessagesInv
      <3> QED
        BY <2>1, <3>1, <3>2
    <2>3. ASSUME NEW k \in 1 .. n - 1
          PROVE  /\ messages'[k].kind = "progress" =>
                      /\ shown' <= messages'[k].percent
                      /\ messages'[k].percent <= last_percent
                      /\ \A m \in 1 .. k - 1 :
                           /\ messages'[m].kind = "progress"
                           /\ messages'[m].percent < messages'[k].percent
                 /\ messages'[k].kind = "done" =>
                      k = n - 1 /\ pc = "off" /\ messages'[k].rc = rc
      <3>1. k + 1 \in 1 .. n /\ messages'[k] = messages[k + 1] /\ messages[k + 1] \in Message
        BY <1>0, <2>1, TypeFacts
      <3>2. CASE messages[k + 1].kind = "progress"
        <4>1. /\ messages[k + 1].percent <= last_percent
              /\ \A m \in 1 .. (k + 1) - 1 :
                   /\ messages[m].kind = "progress"
                   /\ messages[m].percent < messages[k + 1].percent
          BY <1>0, <3>1, <3>2 DEF MessagesInv
        <4>2. 1 \in 1 .. (k + 1) - 1 /\ messages[1] \in Message
          BY <1>0, <2>1, TypeFacts, FirstFacts
        <4>3. shown' <= messages[k + 1].percent
          BY <2>1, <3>1, <3>2, <4>1, <4>2, MessageFacts
        <4>4. ASSUME NEW m \in 1 .. k - 1
              PROVE  /\ messages'[m].kind = "progress"
                     /\ messages'[m].percent < messages[k + 1].percent
          <5>1. m + 1 \in 1 .. (k + 1) - 1 /\ m \in 1 .. n - 1
            BY <2>1
          <5> QED
            BY <2>1, <4>1, <5>1
        <4> QED
          BY <3>1, <3>2, <4>1, <4>3, <4>4
      <3>3. CASE messages[k + 1].kind = "done"
        <4>1. k + 1 = n /\ pc = "off" /\ messages[k + 1].rc = rc
          BY <1>0, <3>1, <3>3 DEF MessagesInv
        <4>2. k \in Int /\ n \in Int
          BY <2>1
        <4>2a. k = n - 1
          BY <4>1, <4>2
        <4>3. messages'[k].kind # "progress"
          BY <3>1, <3>3
        <4> QED
          BY <3>1, <4>1, <4>2a, <4>3
      <3> QED
        BY <3>1, <3>2, <3>3, MessageFacts
    <2> QED
      BY <2>1, <2>2, <2>3 DEF MessagesInv
  <1> QED
    BY <1>1, <1>2, <1>3, <1>4, <1>5, <1>6 DEF IInv

\* The return of the call is handled.
LEMMA DoneStep ==
    ASSUME IInv, HandleDone PROVE IInv'
  <1> USE DEF HandleDone, DiscardPartialOutputs, LinearReported, BusyAfter
  <1>0. /\ TypeInv /\ CallInv /\ CancelInv /\ FilesInv /\ PlayInv /\ MessagesInv
    BY DEF IInv
  <1>1. TypeInv'
    <2>1. files' \in [Files -> {"absent", "partial", "complete", "killed"}]
      BY <1>0 DEF TypeInv, ToolTypeOK, JobTypeOK
    <2>2. messages' \in Seq(Message)
      BY <1>0, TypeFacts
    <2>3. /\ abort_flag' \in {0, 1} /\ job' \in Recordings \cup {NoRecording}
          /\ pc' \in {"off", "open", "create", "linear", "loop", "frame", "close",
                      "return"}
          /\ rc' \in {"OK", "FAILED", "ABORTED"} /\ linear' \in Files \cup {NoFile}
      BY <1>0 DEF TypeInv, ToolTypeOK, JobTypeOK
    <2>4. /\ i' \in 0 .. Frames /\ last_percent' \in -1 .. Percents
          /\ late' \in Nat /\ shown' \in 0 .. Percents
      BY <1>0, TypeFacts
    <2>5. {_busy', _cancelRequested', playOut'} \subseteq BOOLEAN
      BY <1>0 DEF TypeInv, ToolTypeOK
    <2>6. {_lastOutPath', _lastLinearPath'} \subseteq Recordings \cup {NoRecording}
      BY <1>0 DEF TypeInv, ToolTypeOK, JobTypeOK
    <2> QED
      BY <2>1, <2>2, <2>3, <2>4, <2>5, <2>6 DEF TypeInv, ToolTypeOK, JobTypeOK
  <1>2. CallInv'
    BY <1>0, TypeFacts, FirstFacts DEF CallInv, MessagesInv
  <1>3. CancelInv'
    BY <1>0 DEF CancelInv, AbortWasAsked, CancelIsPrompt
  <1>4. FilesInv'
    <2>1. _busy /\ job \in Recordings /\ messages[1].rc = rc /\ pc = "off"
          /\ Head(messages) = messages[1]
      BY <1>0, TypeFacts, FirstFacts, JobFacts DEF MessagesInv
    <2>2. ASSUME NEW f \in Files \ {Fallback, Fallback2} PROVE files'[f] # "partial"
      <3>1. files'[f] = files[f] \/ files'[f] = "absent"
        BY <1>0 DEF TypeInv, ToolTypeOK, JobTypeOK
      <3>2. CASE files[f] = "partial"
        <4>1. f = Out(job) \/ f = Linear(job)
          BY <1>0, <2>1, <2>2, <3>2 DEF FilesInv
        <4>2. rc # "OK"
          BY <1>0, <2>1, <3>2, <4>1 DEF FilesInv
        <4> QED
          BY <1>0, <2>1, <2>2, <4>1, <4>2 DEF TypeInv, ToolTypeOK, JobTypeOK
      <3> QED
        BY <3>1, <3>2
    <2> QED
      BY <2>2 DEF FilesInv, RestIsClean
  <1>5. PlayInv'
    <2>1. _busy /\ job \in Recordings /\ messages[1].rc = rc /\ pc = "off"
          /\ Head(messages) = messages[1]
      BY <1>0, TypeFacts, FirstFacts, JobFacts DEF MessagesInv
    <2>2. ~ playOut
      BY <1>0, <2>1 DEF PlayInv
    <2>3. CASE rc = "OK"
      <3>1. files[Out(job)] = "complete" /\ files' = files /\ _lastOutPath' = job
        BY <1>0, <2>1, <2>3 DEF FilesInv
      <3> QED
        BY <3>1 DEF PlayInv, PlayableIsComplete
    <2>4. CASE rc # "OK"
      BY <2>1, <2>2, <2>4 DEF PlayInv, PlayableIsComplete
    <2> QED
      BY <2>3, <2>4
  <1>6. MessagesInv'
    BY <1>0 DEF MessagesInv
  <1> QED
    BY <1>1, <1>2, <1>3, <1>4, <1>5, <1>6 DEF IInv

\* The process ends and starts again.
LEMMA ReopenStep ==
    ASSUME IInv, CloseAndReopen PROVE IInv'
  <1> USE DEF CloseAndReopen
  <1>0. /\ TypeInv /\ CallInv /\ CancelInv /\ FilesInv /\ PlayInv /\ MessagesInv
    BY DEF IInv
  <1>1. TypeInv'
    <2>1. files' \in [Files -> {"absent", "partial", "complete", "killed"}]
      BY <1>0 DEF TypeInv, ToolTypeOK, JobTypeOK
    <2>2. messages' \in Seq(Message)
      BY <1>0, TypeFacts
    <2>3. /\ abort_flag' \in {0, 1} /\ job' \in Recordings \cup {NoRecording}
          /\ pc' \in {"off", "open", "create", "linear", "loop", "frame", "close",
                      "return"}
          /\ rc' \in {"OK", "FAILED", "ABORTED"} /\ linear' \in Files \cup {NoFile}
      BY <1>0 DEF TypeInv, ToolTypeOK, JobTypeOK
    <2>4. /\ i' \in 0 .. Frames /\ last_percent' \in -1 .. Percents
          /\ late' \in Nat /\ shown' \in 0 .. Percents
      BY <1>0, TypeFacts
    <2>5. {_busy', _cancelRequested', playOut'} \subseteq BOOLEAN
      BY <1>0 DEF TypeInv, ToolTypeOK
    <2>6. {_lastOutPath', _lastLinearPath'} \subseteq Recordings \cup {NoRecording}
      BY <1>0 DEF TypeInv, ToolTypeOK, JobTypeOK
    <2> QED
      BY <2>1, <2>2, <2>3, <2>4, <2>5, <2>6 DEF TypeInv, ToolTypeOK, JobTypeOK
  <1>2. CallInv'
    BY <1>0 DEF CallInv
  <1>3. CancelInv'
    BY <1>0, TypeFacts DEF CancelInv, AbortWasAsked, CancelIsPrompt
  <1>4. FilesInv'
    BY <1>0 DEF FilesInv, RestIsClean
  <1>5. PlayInv'
    BY <1>0 DEF PlayInv, PlayableIsComplete
  <1>6. MessagesInv'
    BY <1>0 DEF MessagesInv
  <1> QED
    BY <1>1, <1>2, <1>3, <1>4, <1>5, <1>6 DEF IInv

\* The recordings are opened.
LEMMA OpenStep ==
    ASSUME IInv, OpenRecordings, UNCHANGED ui PROVE IInv'
  <1> USE DEF OpenRecordings, ui
  <1>0. /\ TypeInv /\ CallInv /\ CancelInv /\ FilesInv /\ PlayInv /\ MessagesInv
    BY DEF IInv
  <1>1. TypeInv'
    BY <1>0 DEF TypeInv, ToolTypeOK, JobTypeOK
  <1>2. CallInv'
    BY <1>0 DEF CallInv
  <1>3. CancelInv'
    BY <1>0 DEF CancelInv, AbortWasAsked, CancelIsPrompt
  <1>4. FilesInv'
    BY <1>0 DEF FilesInv, RestIsClean
  <1>5. PlayInv'
    BY <1>0 DEF PlayInv, PlayableIsComplete
  <1>6. MessagesInv'
    BY <1>0 DEF MessagesInv
  <1> QED
    BY <1>1, <1>2, <1>3, <1>4, <1>5, <1>6 DEF IInv

\* The output is created.
LEMMA OutputStep ==
    ASSUME IInv, CreateOutput, UNCHANGED ui PROVE IInv'
  <1> USE DEF CreateOutput, ui
  <1>0. /\ TypeInv /\ CallInv /\ CancelInv /\ FilesInv /\ PlayInv /\ MessagesInv
    BY DEF IInv
  <1>1. TypeInv'
    BY <1>0 DEF TypeInv, ToolTypeOK, JobTypeOK
  <1>2. CallInv'
    BY <1>0 DEF CallInv
  <1>3. CancelInv'
    BY <1>0 DEF CancelInv, AbortWasAsked, CancelIsPrompt
  <1>4. FilesInv'
    <2>1. _busy /\ job \in Recordings
      BY <1>0, JobFacts DEF CallInv
    <2>2. /\ Out(job) \in Files \ {Fallback, Fallback2} /\ Out(job) # Linear(job)
          /\ Linear(job) \in Files \ {Fallback, Fallback2} /\ Linear(job) # NoFile
          /\ Fallback \in Files /\ Fallback2 \in Files
      BY <2>1, NameFacts
    <2>3. files \in [Files -> {"absent", "partial", "complete", "killed"}]
      BY <1>0 DEF TypeInv, ToolTypeOK, JobTypeOK
    <2> QED
      BY <1>0, <2>1, <2>2, <2>3 DEF FilesInv, RestIsClean, CallInv
  <1>5. PlayInv'
    <2>1. _busy /\ job \in Recordings
      BY <1>0, JobFacts DEF CallInv
    <2>2. /\ Out(job) \in Files \ {Fallback, Fallback2} /\ Out(job) # Linear(job)
          /\ Linear(job) \in Files \ {Fallback, Fallback2} /\ Linear(job) # NoFile
          /\ Fallback \in Files /\ Fallback2 \in Files
      BY <2>1, NameFacts
    <2>3. files \in [Files -> {"absent", "partial", "complete", "killed"}]
      BY <1>0 DEF TypeInv, ToolTypeOK, JobTypeOK
    <2> QED
      BY <1>0, <2>1 DEF PlayInv, PlayableIsComplete
  <1>6. MessagesInv'
    BY <1>0 DEF MessagesInv
  <1> QED
    BY <1>1, <1>2, <1>3, <1>4, <1>5, <1>6 DEF IInv

\* The linear output is created.
LEMMA LinearStep ==
    ASSUME IInv, CreateLinear, UNCHANGED ui PROVE IInv'
  <1> USE DEF CreateLinear, ui
  <1>0. /\ TypeInv /\ CallInv /\ CancelInv /\ FilesInv /\ PlayInv /\ MessagesInv
    BY DEF IInv
  <1>1. TypeInv'
    <2>1. files' \in [Files -> {"absent", "partial", "complete", "killed"}]
      BY <1>0 DEF TypeInv, ToolTypeOK, JobTypeOK
    <2>2. messages' \in Seq(Message)
      BY <1>0, TypeFacts
    <2>3. /\ abort_flag' \in {0, 1} /\ job' \in Recordings \cup {NoRecording}
          /\ pc' \in {"off", "open", "create", "linear", "loop", "frame", "close",
                      "return"}
          /\ rc' \in {"OK", "FAILED", "ABORTED"} /\ linear' \in Files \cup {NoFile}
      BY <1>0, JobFacts, NameFacts DEF CallInv, LinearTargets, TypeInv, ToolTypeOK, JobTypeOK
    <2>4. /\ i' \in 0 .. Frames /\ last_percent' \in -1 .. Percents
          /\ late' \in Nat /\ shown' \in 0 .. Percents
      BY <1>0, TypeFacts
    <2>5. {_busy', _cancelRequested', playOut'} \subseteq BOOLEAN
      BY <1>0 DEF TypeInv, ToolTypeOK
    <2>6. {_lastOutPath', _lastLinearPath'} \subseteq Recordings \cup {NoRecording}
      BY <1>0 DEF TypeInv, ToolTypeOK, JobTypeOK
    <2> QED
      BY <2>1, <2>2, <2>3, <2>4, <2>5, <2>6 DEF TypeInv, ToolTypeOK, JobTypeOK
  <1>2. CallInv'
    <2>1. /\ pc = "linear" /\ pc' \in {"loop", "close"} /\ i' = i /\ late' = late
          /\ last_percent' = last_percent /\ job' = job /\ _busy' = _busy
      OBVIOUS
    <2>2. i = 0 /\ _busy /\ last_percent = -1
      BY <1>0, <2>1 DEF CallInv
    <2>3. _busy' <=> job' # NoRecording
      BY <1>0, <2>1 DEF CallInv
    <2>4. /\ pc' # "off" => _busy'
          /\ pc' \notin {"open", "create", "linear"} /\ pc' # "frame"
      BY <2>1, <2>2
    <2>5. last_percent' = IF i' = 0 THEN -1 ELSE Percent(i')
      BY <2>1, <2>2
    <2> QED
      BY <2>3, <2>4, <2>5 DEF CallInv
  <1>3. CancelInv'
    BY <1>0, TypeFacts
    DEF CallInv, CancelInv, AbortWasAsked, CancelIsPrompt
  <1>4. FilesInv'
    <2>1. _busy /\ job \in Recordings
      BY <1>0, JobFacts DEF CallInv
    <2>2. /\ Out(job) \in Files \ {Fallback, Fallback2} /\ Out(job) # Linear(job)
          /\ Linear(job) \in Files \ {Fallback, Fallback2} /\ Linear(job) # NoFile
          /\ Fallback \in Files /\ Fallback2 \in Files
      BY <2>1, NameFacts
    <2>3. files \in [Files -> {"absent", "partial", "complete", "killed"}]
      BY <1>0 DEF TypeInv, ToolTypeOK, JobTypeOK
    <2>4. linear' \in {Linear(job), NoFile, Fallback, Fallback2} /\ linear = NoFile
      BY <1>0 DEF CallInv, LinearTargets
    <2>5. ASSUME NEW f \in Files \ {Fallback, Fallback2}, files'[f] = "partial"
          PROVE  f = Out(job) \/ (f = Linear(job) /\ linear' = f)
      <3>1. CASE f = linear'
        BY <2>4, <2>5, <3>1, NamesAssumption
      <3>2. CASE f # linear'
        <4>1. files[f] = "partial"
          BY <2>3, <2>5, <3>2
        <4>2. f = Out(job) \/ (f = Linear(job) /\ linear = f)
          BY <1>0, <2>1, <4>1, <2>5 DEF FilesInv
        <4> QED
          BY <2>2, <2>4, <4>2
      <3> QED
        BY <3>1, <3>2
    <2> QED
      BY <2>1, <2>5 DEF FilesInv, RestIsClean
  <1>5. PlayInv'
    <2>1. _busy /\ job \in Recordings
      BY <1>0, JobFacts DEF CallInv
    <2>2. /\ Out(job) \in Files \ {Fallback, Fallback2} /\ Out(job) # Linear(job)
          /\ Linear(job) \in Files \ {Fallback, Fallback2} /\ Linear(job) # NoFile
          /\ Fallback \in Files /\ Fallback2 \in Files
      BY <2>1, NameFacts
    <2>3. files \in [Files -> {"absent", "partial", "complete", "killed"}]
      BY <1>0 DEF TypeInv, ToolTypeOK, JobTypeOK
    <2> QED
      BY <1>0, <2>1 DEF PlayInv, PlayableIsComplete
  <1>6. MessagesInv'
    BY <1>0 DEF MessagesInv
  <1> QED
    BY <1>1, <1>2, <1>3, <1>4, <1>5, <1>6 DEF IInv

\* The abort flag is seen.
LEMMA AbortsStep ==
    ASSUME IInv, Aborts, UNCHANGED ui PROVE IInv'
  <1> USE DEF Aborts, More, Polls, ui
  <1>0. /\ TypeInv /\ CallInv /\ CancelInv /\ FilesInv /\ PlayInv /\ MessagesInv
    BY DEF IInv
  <1>1. TypeInv'
    BY <1>0 DEF TypeInv, ToolTypeOK, JobTypeOK
  <1>2. CallInv'
    BY <1>0 DEF CallInv
  <1>3. CancelInv'
    BY <1>0, TypeFacts DEF CancelInv, AbortWasAsked, CancelIsPrompt
  <1>4. FilesInv'
    BY <1>0 DEF FilesInv, RestIsClean
  <1>5. PlayInv'
    BY <1>0 DEF PlayInv, PlayableIsComplete
  <1>6. MessagesInv'
    BY <1>0 DEF MessagesInv
  <1> QED
    BY <1>1, <1>2, <1>3, <1>4, <1>5, <1>6 DEF IInv

\* The loop goes on to a frame.
LEMMA ContinuesStep ==
    ASSUME IInv, Continues, UNCHANGED ui PROVE IInv'
  <1> USE DEF Continues, More, Polls, ui
  <1>0. /\ TypeInv /\ CallInv /\ CancelInv /\ FilesInv /\ PlayInv /\ MessagesInv
    BY DEF IInv
  <1>1. TypeInv'
    BY <1>0 DEF TypeInv, ToolTypeOK, JobTypeOK
  <1>2. CallInv'
    BY <1>0 DEF CallInv
  <1>3. CancelInv'
    <2>1. /\ Frames \in Nat /\ PollInterval \in Nat \ {0} /\ i \in Nat /\ late \in Nat
          /\ abort_flag \in {0, 1}
      BY <1>0, TypeFacts
    <2>2. /\ i % PollInterval \in 0 .. PollInterval - 1
          /\ i > 0 /\ i % PollInterval # 0 =>
               ((i - 1) % PollInterval) + 1 = i % PollInterval
      BY <2>1, PollFacts
    <2>3. CASE Polls
      <3>1. late = 0
        BY <1>0, <2>1, <2>3 DEF CancelInv
      <3> QED
        BY <1>0, <2>1, <2>2, <3>1 DEF CancelInv, AbortWasAsked, CancelIsPrompt
    <2>4. CASE ~ Polls
      <3>1. i % PollInterval # 0 /\ i > 0
        BY <2>1, <2>4
      <3>2. late <= i % PollInterval
        BY <1>0, <2>2, <3>1 DEF CancelInv
      <3> QED
        BY <1>0, <2>1, <3>2 DEF CancelInv, AbortWasAsked, CancelIsPrompt
    <2> QED
      BY <2>3, <2>4
  <1>4. FilesInv'
    BY <1>0 DEF FilesInv, RestIsClean
  <1>5. PlayInv'
    BY <1>0 DEF PlayInv, PlayableIsComplete
  <1>6. MessagesInv'
    BY <1>0 DEF MessagesInv
  <1> QED
    BY <1>1, <1>2, <1>3, <1>4, <1>5, <1>6 DEF IInv

\* A frame is processed.
LEMMA FrameStep ==
    ASSUME IInv, ProcessFrame, UNCHANGED ui PROVE IInv'
  <1> USE DEF ProcessFrame, Progress, ui
  <1>0. /\ TypeInv /\ CallInv /\ CancelInv /\ FilesInv /\ PlayInv /\ MessagesInv
    BY DEF IInv
  <1>1. TypeInv'
    <2>0. /\ Frames \in Nat /\ i \in 0 .. Frames /\ i < Frames /\ i + 1 \in 1 .. Frames
          /\ Percents \in Nat /\ _busy /\ messages \in Seq(Message)
          /\ last_percent = IF i = 0 THEN -1 ELSE Percent(i)
      BY <1>0, TypeFacts DEF CallInv
    <2>0a. /\ Percent(i + 1) \in 0 .. Percents /\ last_percent \in Int
           /\ last_percent <= Percent(i + 1)
      <3>1. /\ Percent(i + 1) \in 0 .. Percents
            /\ \A k \in 1 .. i + 1 : Percent(k) <= Percent(i + 1)
        BY <2>0, PercentFacts
      <3>2. i # 0 => i \in 1 .. i + 1 /\ Percent(i) \in 0 .. Percents
        BY <2>0, PercentFacts
      <3> QED
        BY <2>0, <3>1, <3>2
    <2> DEFINE m == [kind |-> "progress", percent |-> Percent(i + 1)]
    <2>0b. m \in Message
      BY <2>0a DEF Message
    <2>0c. \/ messages' = messages /\ Percent(i + 1) = last_percent
           \/ messages' = Append(messages, m) /\ last_percent < Percent(i + 1)
      BY <2>0, <2>0a, <2>0b, LastFacts
    <2>1. files' \in [Files -> {"absent", "partial", "complete", "killed"}]
      BY <1>0 DEF TypeInv, ToolTypeOK, JobTypeOK
    <2>2. messages' \in Seq(Message)
      BY <2>0, <2>0b, <2>0c, LastFacts
    <2>3. /\ abort_flag' \in {0, 1} /\ job' \in Recordings \cup {NoRecording}
          /\ pc' \in {"off", "open", "create", "linear", "loop", "frame", "close",
                      "return"}
          /\ rc' \in {"OK", "FAILED", "ABORTED"} /\ linear' \in Files \cup {NoFile}
      BY <1>0 DEF TypeInv, ToolTypeOK, JobTypeOK
    <2>4. /\ i' \in 0 .. Frames /\ last_percent' \in -1 .. Percents
          /\ late' \in Nat /\ shown' \in 0 .. Percents
      BY <1>0, <2>0, <2>0a, TypeFacts
    <2>5. {_busy', _cancelRequested', playOut'} \subseteq BOOLEAN
      BY <1>0 DEF TypeInv, ToolTypeOK
    <2>6. {_lastOutPath', _lastLinearPath'} \subseteq Recordings \cup {NoRecording}
      BY <1>0 DEF TypeInv, ToolTypeOK, JobTypeOK
    <2> QED
      BY <2>1, <2>2, <2>3, <2>4, <2>5, <2>6 DEF TypeInv, ToolTypeOK, JobTypeOK
  <1>2. CallInv'
    BY <1>0, TypeFacts DEF CallInv
  <1>3. CancelInv'
    BY <1>0, TypeFacts DEF CancelInv, AbortWasAsked, CancelIsPrompt
  <1>4. FilesInv'
    BY <1>0 DEF FilesInv, RestIsClean
  <1>5. PlayInv'
    BY <1>0 DEF PlayInv, PlayableIsComplete
  <1>6. MessagesInv'
    <2>0. /\ Frames \in Nat /\ i \in 0 .. Frames /\ i < Frames /\ i + 1 \in 1 .. Frames
          /\ Percents \in Nat /\ _busy /\ messages \in Seq(Message)
          /\ last_percent = IF i = 0 THEN -1 ELSE Percent(i)
      BY <1>0, TypeFacts DEF CallInv
    <2>0a. /\ Percent(i + 1) \in 0 .. Percents /\ last_percent \in Int
           /\ last_percent <= Percent(i + 1)
      <3>1. /\ Percent(i + 1) \in 0 .. Percents
            /\ \A k \in 1 .. i + 1 : Percent(k) <= Percent(i + 1)
        BY <2>0, PercentFacts
      <3>2. i # 0 => i \in 1 .. i + 1 /\ Percent(i) \in 0 .. Percents
        BY <2>0, PercentFacts
      <3> QED
        BY <2>0, <3>1, <3>2
    <2> DEFINE m == [kind |-> "progress", percent |-> Percent(i + 1)]
    <2>0b. m \in Message
      BY <2>0a DEF Message
    <2>0c. \/ messages' = messages /\ Percent(i + 1) = last_percent
           \/ messages' = Append(messages, m) /\ last_percent < Percent(i + 1)
      BY <2>0, <2>0a, <2>0b, LastFacts
    <2>1. CASE messages' = messages /\ Percent(i + 1) = last_percent
      BY <1>0, <2>0, <2>1 DEF MessagesInv
    <2>2. CASE messages' = Append(messages, m) /\ last_percent < Percent(i + 1)
      <3> DEFINE n == Len(messages)
      <3>1. /\ n \in Nat /\ Len(messages') = n + 1 /\ messages'[n + 1] = m
            /\ \A k \in 1 .. n : messages'[k] = messages[k] /\ messages[k] \in Message
        BY <2>0, <2>0b, <2>2, LastFacts
      <3>2. \A k \in 1 .. n : /\ messages[k].kind = "progress"
                              /\ messages[k].percent <= last_percent
                              /\ messages[k].percent \in 0 .. Percents
        BY <1>0, <3>1, MessageFacts DEF MessagesInv
      <3>3. shown <= Percent(i + 1)
        BY <1>0, <2>0, <2>0a, <2>2, TypeFacts DEF MessagesInv
      <3>4. ASSUME NEW k \in 1 .. n
            PROVE  /\ shown <= messages[k].percent
                   /\ messages[k].percent <= Percent(i + 1)
                   /\ \A l \in 1 .. k - 1 : messages[l].percent < messages[k].percent
        BY <1>0, <2>0a, <2>2, <3>1, <3>2 DEF MessagesInv
      <3>5. shown' = shown /\ last_percent' = Percent(i + 1) /\ _busy' = _busy
        OBVIOUS
      <3>6. \A k \in 1 .. n + 1 : messages'[k].kind = "progress"
        BY <3>1, <3>2
      <3>7. ASSUME NEW k \in 1 .. n + 1
            PROVE  /\ shown <= messages'[k].percent
                   /\ messages'[k].percent <= Percent(i + 1)
                   /\ \A l \in 1 .. k - 1 : messages'[l].percent < messages'[k].percent
        <4>1. CASE k \in 1 .. n
          BY <3>1, <3>4, <4>1
        <4>2. CASE k = n + 1
          BY <2>0a, <2>2, <3>1, <3>2, <3>3, <4>2
        <4> QED
          BY <3>1, <4>1, <4>2
      <3>8. shown' <= last_percent'
        BY <3>3, <3>5
      <3> HIDE DEF m
      <3> QED
        BY <2>0, <3>1, <3>5, <3>6, <3>7, <3>8 DEF MessagesInv
    <2> QED
      BY <2>0c, <2>1, <2>2
  <1> QED
    BY <1>1, <1>2, <1>3, <1>4, <1>5, <1>6 DEF IInv

\* The last frame was processed.
LEMMA LastStep ==
    ASSUME IInv, LastFrame, UNCHANGED ui PROVE IInv'
  <1> USE DEF LastFrame, More, ui
  <1>0. /\ TypeInv /\ CallInv /\ CancelInv /\ FilesInv /\ PlayInv /\ MessagesInv
    BY DEF IInv
  <1>1. TypeInv'
    BY <1>0 DEF TypeInv, ToolTypeOK, JobTypeOK
  <1>2. CallInv'
    BY <1>0 DEF CallInv
  <1>3. CancelInv'
    BY <1>0 DEF CancelInv, AbortWasAsked, CancelIsPrompt
  <1>4. FilesInv'
    BY <1>0 DEF FilesInv, RestIsClean
  <1>5. PlayInv'
    BY <1>0 DEF PlayInv, PlayableIsComplete
  <1>6. MessagesInv'
    BY <1>0 DEF MessagesInv
  <1> QED
    BY <1>1, <1>2, <1>3, <1>4, <1>5, <1>6 DEF IInv

\* The files are closed.
LEMMA CloseStep ==
    ASSUME IInv, CloseWavs, UNCHANGED ui PROVE IInv'
  <1> USE DEF CloseWavs, ui
  <1>0. /\ TypeInv /\ CallInv /\ CancelInv /\ FilesInv /\ PlayInv /\ MessagesInv
    BY DEF IInv
  <1>1. TypeInv'
    BY <1>0 DEF TypeInv, ToolTypeOK, JobTypeOK
  <1>2. CallInv'
    BY <1>0 DEF CallInv
  <1>3. CancelInv'
    BY <1>0 DEF CancelInv, AbortWasAsked, CancelIsPrompt
  <1>4. FilesInv'
    <2>1. _busy /\ job \in Recordings
      BY <1>0, JobFacts DEF CallInv
    <2>2. /\ Out(job) \in Files \ {Fallback, Fallback2} /\ Out(job) # Linear(job)
          /\ Linear(job) \in Files \ {Fallback, Fallback2} /\ Linear(job) # NoFile
          /\ Fallback \in Files /\ Fallback2 \in Files
      BY <2>1, NameFacts
    <2>3. files \in [Files -> {"absent", "partial", "complete", "killed"}]
      BY <1>0 DEF TypeInv, ToolTypeOK, JobTypeOK
    <2>4. CASE rc = "OK"
      <3>1. ASSUME NEW f \in Files
            PROVE  files'[f] = IF f \in {Out(job), linear} THEN "complete" ELSE files[f]
        BY <2>4
      <3>2. ASSUME NEW f \in Files \ {Fallback, Fallback2} PROVE files'[f] # "partial"
        BY <1>0, <2>1, <3>1, <3>2 DEF FilesInv
      <3> QED
        BY <2>1, <2>2, <3>1, <3>2 DEF FilesInv, RestIsClean
    <2>5. CASE rc # "OK"
      BY <1>0, <2>1, <2>5 DEF FilesInv, RestIsClean
    <2> QED
      BY <2>4, <2>5
  <1>5. PlayInv'
    <2>1. _busy /\ job \in Recordings
      BY <1>0, JobFacts DEF CallInv
    <2>2. /\ Out(job) \in Files \ {Fallback, Fallback2} /\ Out(job) # Linear(job)
          /\ Linear(job) \in Files \ {Fallback, Fallback2} /\ Linear(job) # NoFile
          /\ Fallback \in Files /\ Fallback2 \in Files
      BY <2>1, NameFacts
    <2>3. files \in [Files -> {"absent", "partial", "complete", "killed"}]
      BY <1>0 DEF TypeInv, ToolTypeOK, JobTypeOK
    <2> QED
      BY <1>0, <2>1 DEF PlayInv, PlayableIsComplete
  <1>6. MessagesInv'
    BY <1>0 DEF MessagesInv
  <1> QED
    BY <1>1, <1>2, <1>3, <1>4, <1>5, <1>6 DEF IInv

\* The call returns.
LEMMA ReturnStep ==
    ASSUME IInv, Return, UNCHANGED ui PROVE IInv'
  <1> USE DEF Return, Posted, ui
  <1>0. /\ TypeInv /\ CallInv /\ CancelInv /\ FilesInv /\ PlayInv /\ MessagesInv
    BY DEF IInv
  <1>1. TypeInv'
    <2>1. files' \in [Files -> {"absent", "partial", "complete", "killed"}]
      BY <1>0 DEF TypeInv, ToolTypeOK, JobTypeOK
    <2>2. messages' \in Seq(Message)
      <3>1. [kind |-> "done", rc |-> rc] \in Message
        BY <1>0, TypeFacts DEF Message
      <3> QED
        BY <1>0, <3>1, TypeFacts, LastFacts
    <2>3. /\ abort_flag' \in {0, 1} /\ job' \in Recordings \cup {NoRecording}
          /\ pc' \in {"off", "open", "create", "linear", "loop", "frame", "close",
                      "return"}
          /\ rc' \in {"OK", "FAILED", "ABORTED"} /\ linear' \in Files \cup {NoFile}
      BY <1>0 DEF TypeInv, ToolTypeOK, JobTypeOK
    <2>4. /\ i' \in 0 .. Frames /\ last_percent' \in -1 .. Percents
          /\ late' \in Nat /\ shown' \in 0 .. Percents
      BY <1>0, TypeFacts
    <2>5. {_busy', _cancelRequested', playOut'} \subseteq BOOLEAN
      BY <1>0 DEF TypeInv, ToolTypeOK
    <2>6. {_lastOutPath', _lastLinearPath'} \subseteq Recordings \cup {NoRecording}
      BY <1>0 DEF TypeInv, ToolTypeOK, JobTypeOK
    <2> QED
      BY <2>1, <2>2, <2>3, <2>4, <2>5, <2>6 DEF TypeInv, ToolTypeOK, JobTypeOK
  <1>2. CallInv'
    BY <1>0 DEF CallInv
  <1>3. CancelInv'
    BY <1>0, TypeFacts DEF CancelInv, AbortWasAsked, CancelIsPrompt
  <1>4. FilesInv'
    BY <1>0 DEF FilesInv, RestIsClean
  <1>5. PlayInv'
    BY <1>0 DEF PlayInv, PlayableIsComplete
  <1>6. MessagesInv'
    <2> DEFINE m == [kind |-> "done", rc |-> rc]
               n == Len(messages)
    <2>1. m \in Message /\ messages \in Seq(Message)
      BY <1>0, TypeFacts DEF Message
    <2>2. /\ n \in Nat /\ Len(messages') = n + 1 /\ messages'[n + 1] = m
          /\ \A k \in 1 .. n : messages'[k] = messages[k] /\ messages[k] \in Message
      BY <2>1, LastFacts
    <2>3. \A k \in 1 .. n : messages[k].kind = "progress"
      BY <1>0, <2>2, MessageFacts DEF MessagesInv
    <2>4. _busy /\ _busy' = _busy /\ pc' = "off" /\ rc' = rc /\ shown' = shown
          /\ last_percent' = last_percent
      BY <1>0 DEF CallInv
    <2>5. m.kind = "done" /\ m.rc = rc
      OBVIOUS
    <2> HIDE DEF m
    <2> QED
      BY <1>0, <2>2, <2>3, <2>4, <2>5 DEF MessagesInv
  <1> QED
    BY <1>1, <1>2, <1>3, <1>4, <1>5, <1>6 DEF IInv

\* Nothing changes.
LEMMA StutterStep ==
    ASSUME IInv, UNCHANGED vars PROVE IInv'
  BY DEF vars, ui, native, IInv, TypeInv, ToolTypeOK, JobTypeOK, CallInv, CancelInv,
         AbortWasAsked, CancelIsPrompt, FilesInv, RestIsClean, PlayInv,
         PlayableIsComplete, MessagesInv

-----------------------------------------------------------------------------
\* Every step preserves it.
LEMMA NextIInv == IInv /\ [Next]_vars => IInv'
  <1> SUFFICES ASSUME IInv, [Next]_vars PROVE IInv'
    OBVIOUS
  <1>1. ASSUME NEW r \in Recordings, StartClick(r) PROVE IInv'
    BY <1>1, StartStep
  <1>2. CASE CancelClick
    BY <1>2, CancelStep
  <1>3. CASE CloseAndReopen
    BY <1>3, ReopenStep
  <1>4. CASE Worker
    <2>1. UNCHANGED ui
      BY <1>4 DEF Worker
    <2> QED
      BY <1>4, <2>1, OpenStep, OutputStep, LinearStep, AbortsStep, ContinuesStep,
         FrameStep, LastStep, CloseStep, ReturnStep DEF Worker, Native
  <1>5. CASE Messages
    BY <1>5, ProgressStep, DoneStep DEF Messages
  <1>6. CASE UNCHANGED vars
    BY <1>6, StutterStep
  <1> QED
    BY <1>1, <1>2, <1>3, <1>4, <1>5, <1>6 DEF Next

\* It holds in every state of a behaviour.
LEMMA Invariance == Spec => []IInv
  BY InitIInv, NextIInv, PTL DEF Spec

\* All variables of the window and the native call hold values of their types.
THEOREM ToolTypes == Spec => []ToolTypeOK
  <1>1. IInv => ToolTypeOK
    BY DEF IInv, TypeInv
  <1> QED
    BY Invariance, <1>1, PTL

\* After btnCancel_Click the loop of AEC_ProcessAudioFilesEx processes at most
\* one poll interval of frames.
THEOREM PromptCancel == Spec => []CancelIsPrompt
  <1>1. IInv => CancelIsPrompt
    BY DEF IInv, CancelInv
  <1> QED
    BY Invariance, <1>1, PTL

\* No run returns "aborted" because of a cancel of an earlier run.
THEOREM WantedAbort == Spec => []AbortWasAsked
  <1>1. IInv => AbortWasAsked
    BY DEF IInv, CancelInv
  <1> QED
    BY Invariance, <1>1, PTL

\* Whenever btnPlayOut is enabled and a result is named, that output was
\* written to its end.
THEOREM CompletePlayable == Spec => []PlayableIsComplete
  <1>1. IInv => PlayableIsComplete
    BY DEF IInv, PlayInv
  <1> QED
    BY Invariance, <1>1, PTL

\* Posted progress belongs to the run that is going on, in ascending order.
THEOREM CurrentProgress == Spec => []ProgressIsCurrent
  <1>1. IInv => ProgressIsCurrent
    <2> SUFFICES ASSUME IInv PROVE ProgressIsCurrent
      OBVIOUS
    <2>1. TypeInv /\ MessagesInv /\ messages \in Seq(Message)
      BY TypeFacts DEF IInv
    <2>2. DOMAIN messages = 1 .. Len(messages) /\ (~ _busy => DOMAIN messages = {})
      BY <2>1 DEF MessagesInv
    <2> QED
      BY <2>1, <2>2 DEF MessagesInv, ProgressIsCurrent
  <1> QED
    BY Invariance, <1>1, PTL

\* Between runs no unfinished output lies next to a recording.
THEOREM CleanRest == Spec => []RestIsClean
  <1>1. IInv => RestIsClean
    BY DEF IInv, FilesInv
  <1> QED
    BY Invariance, <1>1, PTL

-----------------------------------------------------------------------------
(* A run ends: the safety part of RunEnds                                  *)

\* While the buttons are withheld, the native call is under way or its return is
\* among the messages: no run waits for something that nobody will do.
NeverStuck ==
    _busy => pc # "off" \/ \E k \in DOMAIN messages : messages[k].kind = "done"

\* The last message, once the call has returned.
ReturnInv ==
    _busy /\ pc = "off" =>
        messages # <<>> /\ messages[Len(messages)].kind = "done"

\* Steps the native call has before it: two for each frame, and those around them.
StepsLeft ==
    CASE pc = "open"   -> 2 * Frames + 6
      [] pc = "create" -> 2 * Frames + 5
      [] pc = "linear" -> 2 * Frames + 4
      [] pc = "loop"   -> 2 * (Frames - i) + 3
      [] pc = "frame"  -> 2 * (Frames - i) + 2
      [] pc = "close"  -> 2
      [] pc = "return" -> 1
      [] pc = "off"    -> 0

\* With the messages posted: a step of the call posts at most one.
Left == 2 * StepsLeft + Len(messages)

\* Every step of the call and every message handled brings the end nearer, and
\* nothing the user does during a run puts it off.
RunAdvances ==
    _busy => /\ Left' <= Left
             /\ Worker \/ Messages => Left' < Left

\* The measure is a natural number.
LEMMA LeftType == IInv => Left \in Nat /\ StepsLeft \in Nat
  <1> SUFFICES ASSUME IInv PROVE Left \in Nat /\ StepsLeft \in Nat
    OBVIOUS
  <1>1. /\ Frames \in Nat /\ i \in 0 .. Frames /\ messages \in Seq(Message)
        /\ pc \in {"off", "open", "create", "linear", "loop", "frame", "close", "return"}
    BY TypeFacts DEF IInv, TypeInv, ToolTypeOK, JobTypeOK
  <1>2. Frames - i \in Nat /\ Len(messages) \in Nat
    BY <1>1, LenProperties
  <1>3. StepsLeft \in Nat
    <2>1. 2 * (Frames - i) \in Nat
      BY <1>2
    <2>2. CASE pc = "loop"
      BY <2>1, <2>2 DEF StepsLeft
    <2>3. CASE pc = "frame"
      BY <2>1, <2>3 DEF StepsLeft
    <2>4. CASE pc = "open"
      BY <1>1, <2>4 DEF StepsLeft
    <2>5. CASE pc = "create"
      BY <1>1, <2>5 DEF StepsLeft
    <2>6. CASE pc = "linear"
      BY <1>1, <2>6 DEF StepsLeft
    <2>7. CASE pc = "close"
      BY <2>7 DEF StepsLeft
    <2>8. CASE pc = "return"
      BY <2>8 DEF StepsLeft
    <2>9. CASE pc = "off"
      BY <2>9 DEF StepsLeft
    <2> QED
      BY <1>1, <2>2, <2>3, <2>4, <2>5, <2>6, <2>7, <2>8, <2>9
  <1> QED
    BY <1>2, <1>3 DEF Left

\* One step of the native call.
LEMMA WorkerAdvances ==
    ASSUME IInv, Worker
    PROVE  /\ StepsLeft' \in Nat /\ StepsLeft' < StepsLeft
           /\ Len(messages') \in Nat /\ Len(messages') <= Len(messages) + 1
  <1>1. /\ Frames \in Nat /\ i \in 0 .. Frames /\ messages \in Seq(Message)
        /\ Frames - i \in Nat /\ Len(messages) \in Nat
    BY TypeFacts, LenProperties DEF IInv
  <1>2. CASE OpenRecordings \/ CreateOutput \/ CreateLinear \/ LastFrame \/ CloseWavs
               \/ Aborts \/ Continues
    <2>1. messages' = messages /\ i' = i
      BY <1>2 DEF OpenRecordings, CreateOutput, CreateLinear, LastFrame, CloseWavs,
                  Aborts, Continues
    <2>2. pc = "linear" => i = 0
      BY DEF IInv, CallInv
    <2>3. \/ pc = "open" /\ pc' \in {"create", "return"}
          \/ pc = "create" /\ pc' \in {"linear", "return"}
          \/ pc = "linear" /\ pc' \in {"loop", "close"}
          \/ pc = "loop" /\ pc' \in {"close", "frame"}
          \/ pc = "close" /\ pc' = "return"
      BY <1>2 DEF OpenRecordings, CreateOutput, CreateLinear, LastFrame, CloseWavs,
                  Aborts, Continues
    <2>4. StepsLeft' \in Nat /\ StepsLeft' < StepsLeft
      <3>1. CASE pc = "open" /\ pc' = "create"
        BY <1>1, <2>1, <3>1 DEF StepsLeft
      <3>2. CASE pc = "open" /\ pc' = "return"
        BY <1>1, <2>1, <3>2 DEF StepsLeft
      <3>3. CASE pc = "create" /\ pc' = "linear"
        BY <1>1, <2>1, <3>3 DEF StepsLeft
      <3>4. CASE pc = "create" /\ pc' = "return"
        BY <1>1, <2>1, <3>4 DEF StepsLeft
      <3>5. CASE pc = "linear" /\ pc' = "loop"
        BY <1>1, <2>1, <2>2, <3>5 DEF StepsLeft
      <3>6. CASE pc = "linear" /\ pc' = "close"
        BY <1>1, <2>1, <3>6 DEF StepsLeft
      <3>7. CASE pc = "loop" /\ pc' = "close"
        BY <1>1, <2>1, <3>7 DEF StepsLeft
      <3>8. CASE pc = "loop" /\ pc' = "frame"
        BY <1>1, <2>1, <3>8 DEF StepsLeft
      <3>9. CASE pc = "close" /\ pc' = "return"
        BY <1>1, <2>1, <3>9 DEF StepsLeft
      <3> QED
        BY <2>3, <3>1, <3>2, <3>3, <3>4, <3>5, <3>6, <3>7, <3>8, <3>9
    <2> QED
      BY <1>1, <2>1, <2>4
  <1>3. CASE ProcessFrame
    <2>1. pc = "frame" /\ pc' = "loop" /\ i' = i + 1 /\ i < Frames
      BY <1>3 DEF ProcessFrame, IInv, CallInv
    <2>2. StepsLeft' \in Nat /\ StepsLeft' < StepsLeft
      BY <1>1, <2>1 DEF StepsLeft
    <2>3. messages' = messages \o Progress(i + 1)
      BY <1>3 DEF ProcessFrame
    <2>4. CASE Percent(i + 1) = last_percent
      <3>1. messages' = messages
        BY <1>1, <2>3, <2>4 DEF Progress
      <3> QED
        BY <1>1, <2>2, <3>1
    <2>5. CASE Percent(i + 1) # last_percent
      <3> DEFINE m == [kind |-> "progress", percent |-> Percent(i + 1)]
      <3>1. messages' = messages \o <<m>>
        BY <2>3, <2>5 DEF Progress
      <3>2. m \in Message
        <4>1. i + 1 \in 0 .. Frames /\ i + 1 > 0
          BY <1>1, <2>1
        <4>2. Percent(i + 1) \in 0 .. Percents
          BY <4>1, PercentFacts
        <4> QED
          BY <4>2 DEF Message
      <3> HIDE DEF m
      <3>3. Len(messages') = Len(messages) + 1
        BY <1>1, <3>1, <3>2, LastFacts
      <3> QED
        BY <1>1, <2>2, <3>3
    <2> QED
      BY <2>4, <2>5
  <1>4. CASE Return
    <2>1. pc = "return" /\ pc' = "off"
      BY <1>4 DEF Return
    <2>2. StepsLeft' \in Nat /\ StepsLeft' < StepsLeft
      BY <2>1 DEF StepsLeft
    <2> DEFINE m == [kind |-> "done", rc |-> rc]
    <2>3. messages' = Append(messages, m) /\ m \in Message
      BY <1>4, TypeFacts DEF Return, Posted, Message, IInv
    <2> HIDE DEF m
    <2>4. Len(messages') = Len(messages) + 1
      BY <1>1, <2>3, LastFacts
    <2> QED
      BY <1>1, <2>2, <2>4
  <1> QED
    BY <1>2, <1>3, <1>4 DEF Worker, Native

\* Every step of a run that is going on.
LEMMA Advances ==
    ASSUME IInv, IInv', [Next]_vars, _busy
    PROVE  /\ Left' <= Left
           /\ Worker \/ Messages => Left' < Left
  <1>1. Left \in Nat /\ Left' \in Nat /\ StepsLeft \in Nat /\ Len(messages) \in Nat
    <2>1. (IInv => Left \in Nat /\ StepsLeft \in Nat)'
      BY LeftType, PTL
    <2> QED
      BY <2>1, LeftType, TypeFacts, LenProperties DEF IInv
  <1>2. ASSUME Worker PROVE Left' < Left
    <2>1. /\ StepsLeft' \in Nat /\ StepsLeft' < StepsLeft
          /\ Len(messages') \in Nat /\ Len(messages') <= Len(messages) + 1
      BY <1>2, WorkerAdvances
    <2> QED
      BY <1>1, <2>1 DEF Left
  <1>3. ASSUME Messages PROVE Left' < Left
    <2>1. /\ messages # <<>> /\ messages' = Tail(messages)
          /\ pc' = pc /\ i' = i
      BY <1>3 DEF Messages, HandleProgress, HandleDone
    <2>2. Len(messages') = Len(messages) - 1
      BY <2>1, TypeFacts, FirstFacts DEF IInv
    <2>3. StepsLeft' = StepsLeft
      BY <2>1 DEF StepsLeft
    <2> QED
      BY <1>1, <2>2, <2>3 DEF Left
  <1>4. CASE CancelClick \/ UNCHANGED vars
    <2>1. pc' = pc /\ i' = i /\ messages' = messages
      BY <1>4 DEF CancelClick, vars, native
    <2>2. Left' = Left
      BY <2>1 DEF Left, StepsLeft
    <2> QED
      BY <1>1, <1>2, <1>3, <2>2
  <1>5. CASE CloseAndReopen
    <2>1. pc' = "off" /\ messages' = <<>>
      BY <1>5 DEF CloseAndReopen
    <2>2. Left' = 0
      BY <2>1 DEF Left, StepsLeft
    <2> QED
      BY <1>1, <1>2, <1>3, <2>2
  <1>6. CASE \E r \in Recordings : StartClick(r)
    BY <1>6 DEF StartClick
  <1> QED
    BY <1>1, <1>2, <1>3, <1>4, <1>5, <1>6 DEF Next

\* The return stays the last message until it is handled.
LEMMA ReturnStays == IInv /\ ReturnInv /\ [Next]_vars => ReturnInv'
  <1> SUFFICES ASSUME IInv, ReturnInv, [Next]_vars, _busy', pc' = "off"
               PROVE  messages' # <<>> /\ messages'[Len(messages')].kind = "done"
    BY DEF ReturnInv
  <1>1. messages \in Seq(Message)
    BY TypeFacts DEF IInv
  <1>2. CASE Return
    <2> DEFINE m == [kind |-> "done", rc |-> rc]
    <2>1. messages' = Append(messages, m) /\ m \in Message
      BY <1>2, TypeFacts DEF Return, Posted, Message, IInv
    <2>2. m.kind = "done"
      OBVIOUS
    <2> HIDE DEF m
    <2>3. Len(messages') = Len(messages) + 1 /\ messages'[Len(messages) + 1] = m
      BY <1>1, <2>1, LastFacts
    <2> QED
      BY <1>1, <2>1, <2>2, <2>3
  <1>3. CASE HandleProgress
    <2>1. /\ messages # <<>> /\ messages[1].kind = "progress" /\ messages' = Tail(messages)
          /\ pc = "off" /\ _busy
      BY <1>3, <1>1, FirstFacts DEF HandleProgress
    <2>2. messages[Len(messages)].kind = "done"
      BY <2>1 DEF ReturnInv
    <2>3. /\ Len(messages) \in Nat \ {0}
          /\ Tail(messages) \in Seq(Message)
          /\ Len(Tail(messages)) = Len(messages) - 1
          /\ \A k \in 1 .. Len(messages) - 1 : Tail(messages)[k] = messages[k + 1]
      BY <1>1, <2>1, FirstFacts
    <2>4. Len(messages) # 1
      BY <2>1, <2>2
    <2>5. Len(messages) - 1 \in 1 .. Len(messages) - 1 /\ (Len(messages) - 1) + 1 = Len(messages)
      BY <2>3, <2>4
    <2>6. Tail(messages)[Len(messages) - 1] = messages[Len(messages)]
      BY <2>3, <2>5
    <2>7. Tail(messages) # <<>>
      <3>1. Len(Tail(messages)) # 0
        BY <2>3, <2>5
      <3>2. Len(<<>>) = 0
        OBVIOUS
      <3> QED
        BY <3>1, <3>2
    <2> QED
      BY <2>1, <2>2, <2>3, <2>6, <2>7
  <1>4. CASE UNCHANGED <<pc, messages, _busy>>
    BY <1>4 DEF ReturnInv
  <1>5. HandleProgress \/ Return \/ UNCHANGED <<pc, messages, _busy>>
    <2>1. CASE Worker
      BY <2>1 DEF Worker, Native, OpenRecordings, CreateOutput, CreateLinear, LastFrame,
                  CloseWavs, Aborts, Continues, ProcessFrame
    <2>2. CASE Messages
      BY <2>2 DEF Messages, HandleDone, BusyAfter
    <2>3. CASE CancelClick \/ UNCHANGED vars
      BY <2>3 DEF CancelClick, vars, native, ui
    <2>4. CASE CloseAndReopen
      BY <2>4 DEF CloseAndReopen
    <2>5. CASE \E r \in Recordings : StartClick(r)
      BY <2>5 DEF StartClick, Call
    <2> QED
      BY <2>1, <2>2, <2>3, <2>4, <2>5 DEF Next
  <1> QED
    BY <1>2, <1>3, <1>4, <1>5

\* Whenever a run goes on, the native call or its return is still to come.
THEOREM RunIsNeverStuck == Spec => []NeverStuck
  <1>1. Init => ReturnInv
    BY DEF Init, ToolInit, ReturnInv
  <1>2. Spec => []ReturnInv
    BY <1>1, Invariance, ReturnStays, PTL DEF Spec
  <1>3. IInv /\ ReturnInv => NeverStuck
    <2> SUFFICES ASSUME IInv, ReturnInv, _busy, pc = "off"
                 PROVE  \E k \in DOMAIN messages : messages[k].kind = "done"
      BY DEF NeverStuck
    <2>1. messages \in Seq(Message) /\ messages # <<>>
      BY TypeFacts DEF IInv, ReturnInv
    <2>2. Len(messages) \in DOMAIN messages
      BY <2>1, LenProperties, EmptySeq
    <2> QED
      BY <2>2 DEF ReturnInv
  <1> QED
    BY <1>2, <1>3, Invariance, PTL

\* The measure behind RunEnds: with a fair worker and delivered messages a run can
\* only end.
THEOREM RunComesNearer == Spec => [](Left \in Nat) /\ [][RunAdvances]_vars
  <1>1. IInv => Left \in Nat
    BY LeftType
  <1>2. IInv /\ IInv' /\ [Next]_vars => [RunAdvances]_vars
    BY Advances DEF RunAdvances
  <1> QED
    BY <1>1, <1>2, Invariance, PTL DEF Spec
=============================================================================
