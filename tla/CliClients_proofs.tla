-------------------------- MODULE CliClients_proofs --------------------------
(***************************************************************************)
(* What a call of a command leaves behind, for any number of calls, of     *)
(* threads, any size of the pipes and whatever the children do: no child   *)
(* outlives its job, and only a call that timed out leaves a file.         *)
(***************************************************************************)
EXTENDS CliClients, Induction_proofs, SequenceTheorems

\* The functions and records keep their fields.
Shape ==
    /\ DOMAIN caller = Calls /\ DOMAIN job = Calls
    /\ DOMAIN child = Calls /\ DOMAIN file = Calls
    /\ \A c \in Calls : /\ {"pc", "backend", "prompt", "result"} \subseteq DOMAIN caller[c]
                        /\ {"pc", "left", "result"} \subseteq DOMAIN job[c]
                        /\ {"pc", "in", "out", "burst", "leaves"} \subseteq DOMAIN child[c]

\* A child is there only once its job runs.
StartedByItsJob(c) == job[c].pc \in {"none", "queued"} => child[c].pc = "none"

\* A job that is over has seen its child end, and made an answer only of one
\* that exited.
SawItsChildEnd(c) ==
    job[c].pc = "over" => /\ child[c].pc \notin {"reading", "writing"}
                          /\ job[c].result.tag = "ok" => child[c].pc = "exited"

\* Before its call there is nothing.
NothingBeforeTheCall(c) ==
    caller[c].pc = "idle" => job[c].pc = "none" /\ file[c] = "none"

\* A call that did not time out waited for its job: no child is left to write
\* the file once it has been removed.
WaitedForTheJob(c) ==
    caller[c].pc = "done" /\ caller[c].result.tag # "timeout" =>
        job[c].pc = "over" /\ file[c] = "none"

\* FileLeftOnlyByTimeout is inductive only with the rest: that the child is
\* gone follows from the job's end, and the job's end from the caller's.
IInv ==
    /\ Shape
    /\ \A c \in Calls : /\ StartedByItsJob(c) /\ SawItsChildEnd(c)
                        /\ NothingBeforeTheCall(c) /\ WaitedForTheJob(c)
-----------------------------------------------------------------------------
LEMMA InitHolds == Init => IInv
BY DEF Init, IInv, Shape, NoJob, NoChild, StartedByItsJob, SawItsChildEnd,
       NothingBeforeTheCall, WaitedForTheJob

\* What the caller does.
LEMMA CompleteKeeps ==
    ASSUME IInv, NEW c \in Calls, complete(c)
    PROVE  IInv'
<1>1. Shape'
  BY DEF IInv, Shape, complete
<1>2. \A d \in Calls : /\ caller[d].pc' = (IF d = c THEN "await" ELSE caller[d].pc)
                        /\ caller[d].result' = caller[d].result
                        /\ job[d].pc' = (IF d = c THEN "queued" ELSE job[d].pc)
                        /\ job[d].result' = job[d].result
  BY DEF IInv, Shape, complete
<1>3. job[c].pc = "none" /\ UNCHANGED <<child, file>>
  BY DEF IInv, NothingBeforeTheCall, complete
<1> QED
  BY <1>1, <1>2, <1>3 DEF IInv, StartedByItsJob, SawItsChildEnd, NothingBeforeTheCall,
     WaitedForTheJob

LEMMA ReturnKeeps ==
    ASSUME IInv, NEW c \in Calls, NEW result, Return(c, result),
           result.tag = "timeout" \/ job[c].pc = "over"
    PROVE  IInv'
<1>1. Shape'
  BY DEF IInv, Shape, Return
<1>2. \A d \in Calls : /\ caller[d].pc' = (IF d = c THEN "done" ELSE caller[d].pc)
                        /\ caller[d].result' = (IF d = c THEN result ELSE caller[d].result)
                        /\ file[d]' = (IF d = c THEN "none" ELSE file[d])
  BY DEF IInv, Shape, Return
<1>3. UNCHANGED <<job, child>>
  BY DEF Return
<1> QED
  BY <1>1, <1>2, <1>3 DEF IInv, StartedByItsJob, SawItsChildEnd, NothingBeforeTheCall,
     WaitedForTheJob

\* A step of a job that is not over, and may end now.
LEMMA JobKeeps ==
    ASSUME IInv, Shape', NEW c \in Calls,
           UNCHANGED <<caller, file>>,
           \A d \in Calls \ {c} : job[d]' = job[d] /\ child[d]' = child[d],
           job[c].pc \in {"queued", "write", "wait"}, job[c].pc' \in {"write", "wait", "over"},
           SawItsChildEnd(c)'
    PROVE  IInv'
BY DEF IInv, StartedByItsJob, SawItsChildEnd, NothingBeforeTheCall, WaitedForTheJob

LEMMA JobStepKeeps ==
    ASSUME IInv, NEW c \in Calls, JobStep(c)
    PROVE  IInv'
<1> USE DEF IInv, Shape
<1>1. CASE spawn(c)
  BY <1>1, JobKeeps DEF spawn, Starts, SawItsChildEnd
<1>2. CASE spawn_fails(c)
  <2>1. child[c].pc = "none" /\ job[c].pc = "queued"
    BY <1>2 DEF spawn_fails, Starts, StartedByItsJob
  <2>2. Shape' /\ SawItsChildEnd(c)'
    BY <1>2, <2>1 DEF spawn_fails, Over, Err, SawItsChildEnd
  <2> QED
    BY <1>2, <2>1, <2>2, JobKeeps DEF spawn_fails, Over
<1>3. CASE write_stdin(c)
  BY <1>3, JobKeeps DEF write_stdin, SawItsChildEnd
<1>4. CASE write_fails(c)
  <2>1. Shape' /\ SawItsChildEnd(c)'
    BY <1>4 DEF write_fails, Over, Err, Lives, SawItsChildEnd
  <2> QED
    BY <1>4, <2>1, JobKeeps DEF write_fails, Over
<1>5. CASE drop_stdin(c)
  BY <1>5, JobKeeps DEF drop_stdin, SawItsChildEnd
<1>6. CASE read_output(c)
  BY <1>6, JobKeeps DEF read_output, SawItsChildEnd
<1>7. CASE wait_with_output(c)
  <2>1. Shape' /\ SawItsChildEnd(c)'
    BY <1>7 DEF wait_with_output, Over, SawItsChildEnd
  <2> QED
    BY <1>7, <2>1, JobKeeps DEF wait_with_output, Over
<1> QED
  BY <1>1, <1>2, <1>3, <1>4, <1>5, <1>6, <1>7 DEF JobStep

\* A child that moves lives, so its job is not over, and nobody has stopped
\* waiting but for the timeout: this is where the file may come back.
LEMMA ChildKeeps ==
    ASSUME IInv, NEW c \in Calls, NEW pc, NEW next, Moves(c, pc, next),
           pc \in {"reading", "writing"},
           {"pc", "in", "out", "burst", "leaves"} \subseteq DOMAIN next,
           DOMAIN file' = Calls, \A d \in Calls \ {c} : file[d]' = file[d]
    PROVE  IInv'
<1>1. job[c].pc \in {"none", "queued"} => FALSE
  BY DEF IInv, StartedByItsJob, Moves
<1>2. job[c].pc # "over"
  BY DEF IInv, SawItsChildEnd, Moves
<1>3. Shape' /\ \A d \in Calls \ {c} : child[d]' = child[d]
  BY DEF IInv, Shape, Moves
<1>4. UNCHANGED <<caller, job>>
  BY DEF Moves
<1> QED
  BY <1>1, <1>2, <1>3, <1>4 DEF IInv, StartedByItsJob, SawItsChildEnd, NothingBeforeTheCall,
     WaitedForTheJob

LEMMA ChildStepKeeps ==
    ASSUME IInv, NEW c \in Calls, ChildStep(c) \/ ChildWhim(c)
    PROVE  IInv'
<1> USE DEF IInv, Shape
<1>1. CASE child_reads(c)
  BY <1>1, ChildKeeps DEF child_reads
<1>2. CASE child_talks(c)
  BY <1>2, ChildKeeps DEF child_talks
<1>3. CASE child_closes(c)
  BY <1>3, ChildKeeps DEF child_closes
<1>4. CASE child_answers(c)
  BY <1>4, ChildKeeps DEF child_answers
<1>5. CASE child_writes(c)
  BY <1>5, ChildKeeps DEF child_writes
<1>6. CASE child_resumes(c)
  BY <1>6, ChildKeeps DEF child_resumes
<1>7. ASSUME NEW o \in Outputs, child_exits(c, o)
      PROVE  IInv'
  BY <1>7, ChildKeeps DEF child_exits
<1>8. CASE child_stalls(c)
  BY <1>8, ChildKeeps DEF child_stalls, Lives
<1> QED
  BY <1>1, <1>2, <1>3, <1>4, <1>5, <1>6, <1>7, <1>8 DEF ChildStep, ChildWhim

LEMMA NextKeeps == IInv /\ [Next]_vars => IInv'
<1> SUFFICES ASSUME IInv, [Next]_vars PROVE IInv'
  OBVIOUS
<1>1. ASSUME NEW c \in Calls, complete(c) PROVE IInv'
  BY <1>1, CompleteKeeps
<1>2. ASSUME NEW c \in Calls, joined(c) PROVE IInv'
  BY <1>2, ReturnKeeps DEF joined
<1>3. ASSUME NEW c \in Calls, timeout(c) PROVE IInv'
  BY <1>3, ReturnKeeps DEF timeout, Err
<1>4. ASSUME NEW c \in Calls, JobStep(c) PROVE IInv'
  BY <1>4, JobStepKeeps
<1>5. ASSUME NEW c \in Calls, ChildStep(c) \/ ChildWhim(c) PROVE IInv'
  BY <1>5, ChildStepKeeps
<1>6. CASE UNCHANGED vars
  BY <1>6 DEF vars, IInv, Shape, StartedByItsJob, SawItsChildEnd, NothingBeforeTheCall,
     WaitedForTheJob
<1> QED
  BY <1>1, <1>2, <1>3, <1>4, <1>5, <1>6 DEF Next

LEMMA Inductive == Spec => []IInv
BY InitHolds, NextKeeps, PTL DEF Spec

\* "A half-spawned child never lingers": when its job is over, a child has
\* exited or was killed, and an answer was made only of one that exited.
THEOREM NoChildLingers == Spec => []NoChildOutlivesItsJob
<1>1. IInv => NoChildOutlivesItsJob
  BY DEF IInv, SawItsChildEnd, NoChildOutlivesItsJob, Lives
<1> QED
  BY <1>1, Inductive, PTL

\* The -o file of codex is left behind only by a call that timed out, however
\* many calls overlap and whenever their children write.
THEOREM OnlyTimeoutsLeaveFiles == Spec => []FileLeftOnlyByTimeout
<1>1. IInv => FileLeftOnlyByTimeout
  BY DEF IInv, WaitedForTheJob, FileLeftOnlyByTimeout
<1> QED
  BY <1>1, Inductive, PTL

-----------------------------------------------------------------------------
(***************************************************************************)
(* Types: what is left to write counts down from the length of the prompt, *)
(* and the pipes never hold more than fits.                                *)
(***************************************************************************)

\* A prompt is as long as some of its messages together.
LEMMA LengthIsNatural ==
    ASSUME NEW messages \in Seq(Messages), NEW roles
    PROVE  Length(messages, roles) \in Nat
<1> DEFINE N == Len(messages)
           more(n) == IF messages[n].role \in roles THEN messages[n].length ELSE 0
           step == [n \in 1..N |-> [m \in Nat |-> m + more(n)]]
           Total(total) == [n \in 0..N |-> IF n = 0 THEN 0 ELSE total[n - 1] + more(n)]
           f == CHOOSE total : total = Total(total)
<1>1. N \in Nat /\ \A n \in 1..N : messages[n] \in Messages
  BY LenProperties, ElementOfSeq
<1>2. \A n \in 1..N : more(n) \in Nat
  BY <1>1 DEF Messages
<1>3. \A n \in 1..N : \A m \in Nat : step[n][m] = m + more(n) /\ step[n][m] \in Nat
  BY <1>2
<1>4. Length(messages, roles) = f[N]
  BY DEF Length
<1> HIDE DEF N, more, step
<1>5. PICK g \in Recursive(Nat, 0, N, step) : TRUE
  BY <1>1, <1>3, RecursionExists
<1>6. \A n \in 1..N : n - 1 \in 0..N
  BY <1>1
<1>7. g = Total(g)
  <2>1. \A n \in 1..N : g[n] = g[n - 1] + more(n)
    BY <1>3, <1>5, <1>6 DEF Recursive
  <2>2. \A n \in 0..N : n # 0 => n \in 1..N
    BY <1>1
  <2>3. \A n \in 0..N : g[n] = IF n = 0 THEN 0 ELSE g[n - 1] + more(n)
    BY <1>5, <2>1, <2>2 DEF Recursive
  <2> QED
    BY <1>5, <2>3 DEF Recursive
<1>8. f = Total(f)
  <2> HIDE DEF Total
  <2> QED
    BY <1>7
<1> HIDE DEF f
<1>9. f = [n \in 0..N |-> f[n]] /\ f[0] = 0 /\ \A n \in 1..N : f[n] = f[n - 1] + more(n)
  <2>1. \A n \in 1..N : n \in 0..N /\ n # 0
    BY <1>1
  <2>2. 0 \in 0..N
    BY <1>1
  <2>3. f = [n \in 0..N |-> f[n]]
    BY <1>8
  <2>4. \A n \in 0..N : f[n] = IF n = 0 THEN 0 ELSE f[n - 1] + more(n)
    BY <1>8
  <2> QED
    BY <2>1, <2>2, <2>3, <2>4
<1>10. \A n \in 1..N : f[n - 1] \in Nat => f[n] = step[n][f[n - 1]]
  BY <1>3, <1>9
<1>11. f \in Recursive(Nat, 0, N, step)
  BY <1>1, <1>3, <1>9, <1>10, RecursionTyped
<1>12. f[N] \in Nat
  BY <1>1, <1>11 DEF Recursive
<1> QED
  BY <1>4, <1>12

LEMMA StdinIsNatural ==
    ASSUME NEW q \in Requests
    PROVE  Stdin(q) \in Nat
BY CliAssumption, LengthIsNatural DEF Stdin, split_messages, build_prompt, directed_prompt

Backends == {"claude", "codex", "gemini"}

\* The records of one call, each by itself.
CallerOK(k) == k.pc \in {"idle", "await", "done"} /\ k.backend \in Backends /\ k.prompt \in Nat

JobOK(j, prompt) ==
    /\ j.pc \in {"none", "queued", "write", "wait", "over"} /\ j.left \in 0..prompt
    /\ j.result.tag \in {"none", "ok", "err", "quota"}

ChildOK(h) ==
    /\ h.pc \in {"none", "reading", "writing", "exited", "killed"}
    /\ h.in \in 0..PipeCap /\ h.out \in 0..PipeCap /\ h.burst \in 0..Burst

Typed(c) ==
    /\ CallerOK(caller[c]) /\ JobOK(job[c], caller[c].prompt) /\ ChildOK(child[c])
    /\ file[c] \in {"none", "", "text"}

TypeInv == Shape /\ \A c \in Calls : Typed(c)

LEMMA Bounds == PipeCap \in Nat \ {0} /\ Burst \in Nat \ {0}
BY CliAssumption

LEMMA InitTyped == Init => TypeInv
<1> SUFFICES ASSUME Init, NEW c \in Calls PROVE Typed(c)
  BY InitHolds DEF IInv, TypeInv
<1>1. PICK q \in Requests :
         caller[c] = [pc |-> "idle", backend |-> q.backend, prompt |-> Stdin(q), result |-> Err("none")]
  BY DEF Init
<1>2. Stdin(q) \in Nat /\ q.backend \in Backends
  BY StdinIsNatural, CliAssumption DEF Backends
<1>3. CallerOK(caller[c]) /\ caller[c].prompt \in Nat
  BY <1>1, <1>2 DEF CallerOK
<1>4. JobOK(NoJob, caller[c].prompt)
  <2>1. NoJob.pc = "none" /\ NoJob.left = 0 /\ NoJob.result.tag = "none"
    BY DEF NoJob, Err
  <2> QED
    BY <1>3, <2>1 DEF JobOK
<1>5. ChildOK(NoChild)
  BY Bounds DEF ChildOK, NoChild
<1> QED
  BY <1>3, <1>4, <1>5 DEF Init, Typed

\* The calls do not touch each other.
LEMMA OneTyped ==
    ASSUME TypeInv, Shape', NEW c \in Calls, Typed(c)',
           \A d \in Calls \ {c} : /\ caller[d]' = caller[d] /\ job[d]' = job[d]
                                   /\ child[d]' = child[d] /\ file[d]' = file[d]
    PROVE  TypeInv'
<1>1. ASSUME NEW d \in Calls \ {c} PROVE Typed(d)'
  <2>1. Typed(d)
    BY DEF TypeInv
  <2> QED
    BY <2>1 DEF Typed, CallerOK, JobOK, ChildOK
<1> QED
  BY <1>1 DEF TypeInv

\* Whatever a child leaves, its job makes an answer or an error of it.
LEMMA OutcomeTyped ==
    ASSUME NEW c \in Calls, caller[c].backend \in Backends
    PROVE  Outcome(c).tag \in {"ok", "err", "quota"}
BY DEF Backends, Outcome, claude, codex, gemini, Ok, Err

\* What the steps make of the records.
LEMMA QueuedOK ==
    ASSUME NEW j, {"pc", "left", "result"} \subseteq DOMAIN j, NEW n \in Nat, JobOK(j, n)
    PROVE  JobOK([j EXCEPT !.pc = "queued", !.left = n], n)
BY DEF JobOK

LEMMA ChildMovesOK ==
    ASSUME NEW h, {"pc", "in", "out", "burst"} \subseteq DOMAIN h, ChildOK(h)
    PROVE  /\ h.in > 0 => ChildOK([h EXCEPT !.in = h.in - 1])
           /\ \A n \in {0, 1} : h.in >= n =>
                 ChildOK([h EXCEPT !.in = h.in - n, !.pc = "writing", !.burst = Burst])
           /\ ChildOK([h EXCEPT !.listens = FALSE, !.in = 0])
           /\ ChildOK([h EXCEPT !.pc = "writing", !.burst = 1, !.final = TRUE])
           /\ h.burst > 0 /\ h.out < PipeCap =>
                 ChildOK([h EXCEPT !.burst = h.burst - 1, !.out = h.out + 1])
           /\ ChildOK([h EXCEPT !.pc = "reading"])
           /\ ChildOK([h EXCEPT !.stalled = TRUE])
           /\ \A o : ChildOK([h EXCEPT !.pc = "exited", !.leaves = o])
BY Bounds DEF ChildOK

LEMMA CallerTyped ==
    ASSUME TypeInv, Shape', NEW c \in Calls, complete(c) \/ joined(c) \/ timeout(c)
    PROVE  TypeInv'
<1> DEFINE k == caller[c]
           j == job[c]
<1>0. /\ DOMAIN caller = Calls /\ DOMAIN job = Calls /\ DOMAIN file = Calls
      /\ {"pc", "backend", "prompt", "result"} \subseteq DOMAIN k
      /\ {"pc", "left", "result"} \subseteq DOMAIN j
      /\ CallerOK(k) /\ JobOK(j, k.prompt) /\ ChildOK(child[c]) /\ file[c] \in {"none", "", "text"}
  BY DEF TypeInv, Typed, Shape
<1>00. k = caller[c] /\ j = job[c]
  OBVIOUS
<1> HIDE DEF k, j
<1>1. CASE complete(c)
  <2>1. /\ caller'[c] = [k EXCEPT !.pc = "await"]
        /\ job'[c] = [j EXCEPT !.pc = "queued", !.left = k.prompt]
        /\ child'[c] = child[c] /\ file'[c] = file[c]
    BY <1>0, <1>00, <1>1 DEF complete
  <2>2. CallerOK([k EXCEPT !.pc = "await"]) /\ [k EXCEPT !.pc = "await"].prompt = k.prompt
    BY <1>0 DEF CallerOK
  <2>3. JobOK([j EXCEPT !.pc = "queued", !.left = k.prompt], k.prompt)
    BY <1>0, QueuedOK DEF CallerOK
  <2>4. Typed(c)'
    BY <1>0, <1>00, <2>1, <2>2, <2>3 DEF Typed, CallerOK, JobOK, ChildOK
  <2> QED
    BY <1>0, <1>1, <2>4, OneTyped DEF complete
<1>2. ASSUME NEW result, Return(c, result) PROVE TypeInv'
  <2> DEFINE next == [k EXCEPT !.pc = "done", !.result = result]
  <2>1. /\ caller'[c] = next /\ job'[c] = j /\ child'[c] = child[c] /\ file'[c] = "none"
    BY <1>0, <1>00, <1>2 DEF Return
  <2>2. CallerOK(next) /\ next.prompt = k.prompt
    BY <1>0 DEF CallerOK
  <2>3. Typed(c)'
    BY <1>0, <1>00, <2>1, <2>2 DEF Typed, CallerOK, JobOK, ChildOK
  <2> QED
    BY <1>0, <1>2, <2>3, OneTyped DEF Return
<1> QED
  BY <1>1, <1>2 DEF joined, timeout

\* A step of a job that leaves its records as they should be.
LEMMA JobStepTyped ==
    ASSUME TypeInv, Shape', NEW c \in Calls, UNCHANGED <<caller, file>>,
           \A d \in Calls \ {c} : job[d]' = job[d] /\ child[d]' = child[d],
           JobOK(job'[c], caller[c].prompt), ChildOK(child'[c])
    PROVE  TypeInv'
<1>1. CallerOK(caller[c]) /\ file[c] \in {"none", "", "text"}
  BY DEF TypeInv, Typed
<1>2. Typed(c)'
  BY <1>1 DEF Typed, CallerOK, JobOK, ChildOK
<1> QED
  BY <1>2, OneTyped

LEMMA JobTyped ==
    ASSUME TypeInv, Shape', NEW c \in Calls, JobStep(c)
    PROVE  TypeInv'
<1> DEFINE j == job[c]
           h == child[c]
           n == caller[c].prompt
<1>0. /\ DOMAIN job = Calls /\ DOMAIN child = Calls
      /\ {"pc", "left", "result"} \subseteq DOMAIN j
      /\ {"pc", "in", "out", "burst"} \subseteq DOMAIN h
      /\ caller[c].backend \in Backends /\ n \in Nat
      /\ JobOK(j, n) /\ ChildOK(h)
      /\ j = job[c] /\ h = child[c] /\ n = caller[c].prompt
  BY DEF TypeInv, Typed, Shape, CallerOK
<1> HIDE DEF j, h, n
<1> USE Bounds
<1>1. CASE spawn(c)
  <2>1. job'[c] = [j EXCEPT !.pc = "write"] /\ child'[c] = [h EXCEPT !.pc = "reading"]
    BY <1>0, <1>1 DEF spawn
  <2>2. JobOK([j EXCEPT !.pc = "write"], n) /\ ChildOK([h EXCEPT !.pc = "reading"])
    BY <1>0 DEF JobOK, ChildOK
  <2> QED
    BY <1>0, <1>1, <2>1, <2>2, JobStepTyped DEF spawn
<1>2. ASSUME NEW result, result.tag \in {"ok", "err", "quota"}, job' = Over(c, result), ChildOK(child'[c]),
             \A d \in Calls \ {c} : child[d]' = child[d], UNCHANGED <<caller, file>>
      PROVE  TypeInv'
  <2>1. JobOK(job'[c], n) /\ \A d \in Calls \ {c} : job[d]' = job[d]
    BY <1>0, <1>2 DEF JobOK, Over
  <2> QED
    BY <1>0, <1>2, <2>1, JobStepTyped
<1>3. CASE spawn_fails(c)
  <2>1. Err("err").tag \in {"ok", "err", "quota"}
    BY DEF Err
  <2> QED
    BY <1>0, <1>2, <1>3, <2>1 DEF spawn_fails
<1>4. CASE write_stdin(c)
  <2>1. /\ job'[c] = [j EXCEPT !.left = j.left - 1] /\ child'[c] = [h EXCEPT !.in = h.in + 1]
        /\ j.left > 0 /\ h.in < PipeCap
    BY <1>0, <1>4 DEF write_stdin
  <2>2. JobOK([j EXCEPT !.left = j.left - 1], n) /\ ChildOK([h EXCEPT !.in = h.in + 1])
    BY <1>0, <2>1 DEF JobOK, ChildOK
  <2> QED
    BY <1>0, <1>4, <2>1, <2>2, JobStepTyped DEF write_stdin
<1>5. CASE write_fails(c)
  <2>1. child'[c] = [h EXCEPT !.pc = "killed"] \/ child'[c] = [h EXCEPT !.pc = h.pc]
    BY <1>0, <1>5 DEF write_fails
  <2>2. ChildOK([h EXCEPT !.pc = "killed"]) /\ ChildOK([h EXCEPT !.pc = h.pc])
    BY <1>0 DEF ChildOK
  <2>3. Err("err").tag \in {"ok", "err", "quota"}
    BY DEF Err
  <2>4. ChildOK(child'[c])
    BY <2>1, <2>2
  <2> QED
    BY <1>0, <1>2, <1>5, <2>3, <2>4 DEF write_fails
<1>6. CASE drop_stdin(c)
  <2>1. job'[c] = [j EXCEPT !.pc = "wait"] /\ child'[c] = [h EXCEPT !.eof = TRUE]
    BY <1>0, <1>6 DEF drop_stdin
  <2>2. JobOK([j EXCEPT !.pc = "wait"], n) /\ ChildOK([h EXCEPT !.eof = TRUE])
    BY <1>0 DEF JobOK, ChildOK
  <2> QED
    BY <1>0, <1>6, <2>1, <2>2, JobStepTyped DEF drop_stdin
<1>7. CASE read_output(c)
  <2>1. job' = job /\ child'[c] = [h EXCEPT !.out = h.out - 1] /\ h.out > 0
    BY <1>0, <1>7 DEF read_output
  <2>2. ChildOK([h EXCEPT !.out = h.out - 1])
    BY <1>0, <2>1 DEF ChildOK
  <2> QED
    BY <1>0, <1>7, <2>1, <2>2, JobStepTyped DEF read_output
<1>8. CASE wait_with_output(c)
  <2>1. PICK result \in {Outcome(c), Err("err")} : job' = Over(c, result)
    BY <1>8 DEF wait_with_output
  <2>2. result.tag \in {"ok", "err", "quota"}
    <3>1. Outcome(c).tag \in {"ok", "err", "quota"}
      BY <1>0, OutcomeTyped
    <3>2. Err("err").tag = "err"
      BY DEF Err
    <3> QED
      BY <2>1, <3>1, <3>2
  <2> QED
    BY <1>0, <1>2, <1>8, <2>1, <2>2 DEF wait_with_output
<1> QED
  BY <1>1, <1>3, <1>4, <1>5, <1>6, <1>7, <1>8 DEF JobStep

LEMMA MovesTyped ==
    ASSUME TypeInv, Shape', NEW c \in Calls, NEW pc, NEW next, Moves(c, pc, next), ChildOK(next),
           file'[c] \in {"none", "", "text"}, \A d \in Calls \ {c} : file[d]' = file[d]
    PROVE  TypeInv'
<1>1. /\ UNCHANGED <<caller, job>> /\ child'[c] = next
      /\ \A d \in Calls \ {c} : child[d]' = child[d]
  BY DEF Moves, TypeInv, Shape
<1>2. CallerOK(caller[c]) /\ JobOK(job[c], caller[c].prompt)
  BY DEF TypeInv, Typed
<1>3. Typed(c)'
  BY <1>1, <1>2 DEF Typed, CallerOK, JobOK, ChildOK
<1> QED
  BY <1>1, <1>3, OneTyped

LEMMA ChildTyped ==
    ASSUME TypeInv, Shape', NEW c \in Calls, ChildStep(c) \/ ChildWhim(c)
    PROVE  TypeInv'
<1>1. /\ {"pc", "in", "out", "burst"} \subseteq DOMAIN child[c] /\ DOMAIN file = Calls
      /\ ChildOK(child[c]) /\ file[c] \in {"none", "", "text"}
  BY DEF TypeInv, Typed, Shape
<1>2. ASSUME NEW pc, NEW next, Moves(c, pc, next), ChildOK(next), UNCHANGED file
      PROVE  TypeInv'
  BY <1>1, <1>2, MovesTyped
<1>3. CASE child_reads(c)
  BY <1>1, <1>2, <1>3, ChildMovesOK DEF child_reads
<1>4. CASE child_talks(c)
  <2> DEFINE n == IF child[c].eof THEN 1 ELSE 0
             next == [child[c] EXCEPT !.in = @ - n, !.pc = "writing", !.burst = Burst]
  <2>1. n \in {0, 1} /\ child[c].in >= n /\ Moves(c, "reading", next) /\ UNCHANGED file
    BY <1>4 DEF child_talks
  <2> HIDE DEF n
  <2>2. ChildOK(next)
    BY <1>1, <2>1, ChildMovesOK
  <2> HIDE DEF next
  <2> QED
    BY <1>2, <2>1, <2>2
<1>5. CASE child_closes(c)
  BY <1>1, <1>2, <1>5, ChildMovesOK DEF child_closes
<1>6. CASE child_answers(c)
  BY <1>1, <1>2, <1>6, ChildMovesOK DEF child_answers
<1>7. CASE child_writes(c)
  BY <1>1, <1>2, <1>7, ChildMovesOK DEF child_writes
<1>8. CASE child_resumes(c)
  BY <1>1, <1>2, <1>8, ChildMovesOK DEF child_resumes
<1>9. ASSUME NEW o \in Outputs, child_exits(c, o) PROVE TypeInv'
  <2>1. o.file \in {"none", "", "text"}
    BY CliAssumption DEF Output
  <2>2. file'[c] \in {"none", "", "text"} /\ \A d \in Calls \ {c} : file[d]' = file[d]
    BY <1>1, <1>9, <2>1 DEF child_exits
  <2>3. Moves(c, "writing", [child[c] EXCEPT !.pc = "exited", !.leaves = o])
    BY <1>9 DEF child_exits
  <2>4. ChildOK([child[c] EXCEPT !.pc = "exited", !.leaves = o])
    BY <1>1, ChildMovesOK
  <2> QED
    BY <2>2, <2>3, <2>4, MovesTyped
<1>10. CASE child_stalls(c)
  BY <1>1, <1>2, <1>10, ChildMovesOK DEF child_stalls
<1> QED
  BY <1>3, <1>4, <1>5, <1>6, <1>7, <1>8, <1>9, <1>10 DEF ChildStep, ChildWhim

\* What a job still has to write, what the pipes hold and what is made of a
\* child stay in their bounds, for any prompts, pipes, threads and children.
THEOREM TypeCorrect == Spec => []TypeOK
<1>1. TypeInv => TypeOK
  BY DEF TypeInv, Typed, CallerOK, JobOK, ChildOK, TypeOK
<1>2. TypeInv /\ IInv' /\ [Next]_vars => TypeInv'
  <2> SUFFICES ASSUME TypeInv, Shape', [Next]_vars PROVE TypeInv'
    BY DEF IInv
  <2>1. CASE UNCHANGED vars
    BY <2>1 DEF vars, TypeInv, Shape, Typed, CallerOK, JobOK, ChildOK
  <2> QED
    BY <2>1, CallerTyped, JobTyped, ChildTyped DEF Next
<1> QED
  BY <1>1, <1>2, InitTyped, Inductive, PTL DEF Spec
=============================================================================
