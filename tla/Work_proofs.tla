------------------------------- MODULE Work_proofs -------------------------------
(***************************************************************************)
(* Calls that share rows and files, for any number of processes, calls and   *)
(* crashes: a session and its checkpoint file, an episode and its row, a     *)
(* memory that runs record and dreams revise.                                *)
(***************************************************************************)
EXTENDS SessionRun, EngineeringEpisode, TaskMemory, Recursion, FiniteSetTheorems,
        SequenceTheorems, TLAPS

(* The files of a session, and what a process holds of it.  A host is live   *)
(* from the start of run until its result is returned or its error is taught;*)
(* what recover does, and what saves the error, is no longer live.           *)
SavedTask == [stage : {"execute", "complete"}, run : Nat \ {0}, attempt : Nat, error : BOOLEAN]
Opens == {"none", "draft", "session", "gone"}
Saves == {"open", "write", "replace"}
HostState == [pc : Saves \cup {"before", "work", "after", "learn", "finish", "error"},
              checkpoint : SavedTask, open : Opens, next : {"before", "learn", "off"},
              status : {"none", "accepted", "failed"}]
Taught == [run : Nat, status : {"none", "accepted", "failed", "raised"}]

FileOf(f, begun, allowed) ==
  /\ f \in SavedTask \cup {Absent, Torn} /\ f.run <= begun
  /\ f.stage = "complete" => f.run \in allowed
FileSound(f) == FileOf(f, started, approved)
Live(h) == host[h] # Off /\ (host[h].pc \in Saves => host[h].next # "off")
HostSound(h) ==
  \/ host[h] = Off
  \/ /\ host[h] \in HostState /\ FileSound(host[h].checkpoint)
     /\ Live(h) => host[h].checkpoint.attempt = 0 /\ host[h].checkpoint.error = FALSE
     /\ ~Live(h) => host[h].checkpoint.attempt > 0
     /\ \/ host[h].pc \in {"learn", "finish"}
        \/ host[h].pc \in Saves /\ host[h].next = "learn"
        => host[h].checkpoint.stage = "complete"
SessionTyped ==
  /\ started \in Nat /\ FileSound(session) /\ FileSound(draft) /\ shared \in BOOLEAN
  /\ \A run \in approved \cup returned : run \in Nat /\ 0 < run /\ run <= started
  /\ taught \subseteq Taught /\ \A o \in taught : o.run <= started
  /\ host = [h \in Hosts |-> host[h]] /\ \A h \in Hosts : HostSound(h)

(* A run is live in one process at most, and not after it returned or raised.*)
HasRaised(run) == [run |-> run, status |-> "raised"] \in taught
Fates ==
  /\ \A o \in taught : o.status # "raised" => o.run \in approved
  /\ \A run \in returned : ~HasRaised(run)
  /\ \A h \in Hosts : Live(h) =>
       host[h].checkpoint.run \notin returned /\ ~HasRaised(host[h].checkpoint.run)
  /\ \A g, h \in Hosts :
       Live(g) /\ Live(h) /\ host[g].checkpoint.run = host[h].checkpoint.run => g = h

(* A call that is alone knows what the files hold.                           *)
FilesFollow(h) ==
  /\ host[h].pc = "write" => draft = Torn /\ host[h].open = "draft"
  /\ host[h].pc = "replace" => draft = host[h].checkpoint
  /\ host[h].pc \in {"learn", "finish"} => session = host[h].checkpoint
SessionKept ==
  /\ session # Torn
  /\ session.run \in returned /\ session.attempt = 0 =>
       session.stage = "complete" /\ ~session.error
OneCall == ~shared =>
  /\ \A g, h \in Hosts : host[g] # Off /\ host[h] # Off => g = h
  /\ SessionKept /\ \A h \in Hosts : FilesFollow(h)
SessionInv == SessionTyped /\ Fates /\ OneCall

(* The invariant of a session carries what the run checks of it.            *)
LEMMA SessionInvImplies == SessionInv => SessionSound
<1> SUFFICES ASSUME SessionInv PROVE SessionSound
  OBVIOUS
<1>1. \A o \in taught : o.status = "raised" => o = [run |-> o.run, status |-> "raised"]
  BY DEF SessionInv, SessionTyped, Taught
<1>2. \A o \in taught : o.status = "raised" => HasRaised(o.run)
  BY <1>1 DEF HasRaised
<1> QED
  BY <1>2 DEF SessionInv, SessionTyped, Fates, OneCall, SessionKept, FileSound, FileOf, SessionSound

(* No call yet.                                                             *)
LEMMA SessionInvInit == SessionInit => SessionInv
<1> SUFFICES ASSUME SessionInit PROVE SessionInv
  OBVIOUS
<1> USE DEF SessionInit
<1>1. FileSound(Absent)
  BY DEF FileSound, FileOf, Absent, File
<1>2. SessionTyped
  BY <1>1 DEF SessionTyped, HostSound
<1>3. Fates
  BY DEF Fates, Live, HasRaised
<1>4. OneCall
  BY DEF OneCall, SessionKept, FilesFollow, Off, Absent, Torn, File
<1> QED
  BY <1>2, <1>3, <1>4 DEF SessionInv
-------------------------------------------------------------------------------
(* Another process stays as it is, except that the file it holds open may be *)
(* moved away under it.                                                      *)
Unmoved(d) ==
  \/ host'[d] = host[d]
  \/ /\ host[d] # Off /\ host'[d].open \in Opens
     /\ host'[d] = [host[d] EXCEPT !.open = host'[d].open]

(* A host that did not move is where it was, with the checkpoint it had.    *)
LEMMA UnmovedSame ==
  ASSUME NEW d \in Hosts, HostSound(d), Unmoved(d)
  PROVE  /\ host'[d] = Off <=> host[d] = Off
         /\ host[d] # Off => /\ host[d] \in HostState /\ host'[d] \in HostState
                             /\ host'[d].pc = host[d].pc /\ host'[d].next = host[d].next
                             /\ host'[d].checkpoint = host[d].checkpoint
<1>1. CASE host[d] = Off
  BY <1>1 DEF Unmoved
<1>2. CASE host[d] # Off /\ host'[d] = host[d]
  BY <1>2 DEF HostSound
<1>3. CASE host[d] # Off /\ host'[d].open \in Opens
           /\ host'[d] = [host[d] EXCEPT !.open = host'[d].open]
  <2>1. host[d] \in HostState
    BY <1>3 DEF HostSound
  <2>2. PICK o \in Opens : host'[d] = [host[d] EXCEPT !.open = o]
    BY <1>3
  <2>3. host'[d] \in HostState /\ host'[d].pc = host[d].pc /\ host'[d].next = host[d].next
        /\ host'[d].checkpoint = host[d].checkpoint
    BY <2>1, <2>2 DEF HostState
  <2>4. Off \notin HostState
    BY DEF Off, HostState, Saves
  <2> QED
    BY <1>3, <2>1, <2>3, <2>4
<1> QED
  BY <1>1, <1>2, <1>3 DEF Unmoved

(* A file is as sound later as it is now: runs started and approved only    *)
(* grow.                                                                    *)
LEMMA FileStep ==
  ASSUME NEW f, FileSound(f), started \in Nat, started' \in Nat, started <= started',
         approved \subseteq approved'
  PROVE  FileOf(f, started', approved')
<1>1. f.run \in Nat
  BY DEF FileSound, FileOf, SavedTask, Absent, Torn, File
<1> QED
  BY <1>1 DEF FileSound, FileOf

(* When one host moves, the others stay sound.                              *)
LEMMA HostStep ==
  ASSUME SessionTyped, NEW h \in Hosts, \A d \in Hosts \ {h} : Unmoved(d),
         started' \in Nat, started <= started', approved \subseteq approved', HostSound(h)'
  PROVE  \A d \in Hosts : HostSound(d)'
<1> SUFFICES ASSUME NEW d \in Hosts, d # h, host'[d] # Off PROVE HostSound(d)'
  BY DEF HostSound
<1>1. HostSound(d) /\ started \in Nat
  BY DEF SessionTyped
<1>2. /\ host[d] # Off /\ host'[d] \in HostState /\ host'[d].pc = host[d].pc
      /\ host'[d].next = host[d].next /\ host'[d].checkpoint = host[d].checkpoint
  BY <1>1, UnmovedSame
<1>3. Live(d)' <=> Live(d)
  BY <1>2 DEF Live
<1>4. FileSound(host[d].checkpoint)
  BY <1>1, <1>2 DEF HostSound
<1>5. FileOf(host'[d].checkpoint, started', approved')
  BY <1>1, <1>2, <1>4, FileStep
<1> QED
  BY <1>1, <1>2, <1>3, <1>5 DEF HostSound, FileSound

(* Whoever is live goes on with its own run or has begun a new one.          *)
LEMMA FatesStep ==
  ASSUME SessionTyped, Fates, NEW h \in Hosts, \A d \in Hosts \ {h} : Unmoved(d),
         approved \subseteq approved', taught' = taught, returned' = returned,
         Live(h)' => \/ Live(h) /\ host'[h].checkpoint.run = host[h].checkpoint.run
                     \/ host'[h].checkpoint.run = started + 1
  PROVE  Fates'
<1>1. ASSUME NEW d \in Hosts \ {h}
      PROVE  /\ Live(d)' => Live(d) /\ host'[d].checkpoint.run = host[d].checkpoint.run
             /\ Live(d) => host[d].checkpoint.run \in Nat /\ host[d].checkpoint.run <= started
  <2>1. HostSound(d)
    BY DEF SessionTyped
  <2>2. Live(d) => host[d].checkpoint.run \in Nat /\ host[d].checkpoint.run <= started
    BY <2>1 DEF HostSound, Live, FileSound, FileOf, HostState, SavedTask
  <2> QED
    BY <2>1, <2>2, UnmovedSame DEF Live
<1>2. started \in Nat /\ \A run \in returned : run <= started
  BY DEF SessionTyped
<1>3. \A run : HasRaised(run) => run \in Nat /\ run <= started
  BY DEF SessionTyped, HasRaised, Taught
<1>4. \A run : HasRaised(run)' <=> HasRaised(run)
  BY DEF HasRaised
<1>5. started + 1 \notin returned /\ ~HasRaised(started + 1)
  BY <1>2, <1>3
<1>6. \A d \in Hosts : Live(d)' =>
        host'[d].checkpoint.run \notin returned /\ ~HasRaised(host'[d].checkpoint.run)
  BY <1>1, <1>5 DEF Fates
<1>7. \A d \in Hosts \ {h} : Live(d)' /\ Live(h)' =>
        host'[d].checkpoint.run # host'[h].checkpoint.run
  BY <1>1, <1>2 DEF Fates
<1>8. \A c, d \in Hosts : Live(c)' /\ Live(d)' /\ host'[c].checkpoint.run = host'[d].checkpoint.run
                         => c = d
  BY <1>1, <1>7 DEF Fates
<1> QED
  BY <1>4, <1>6, <1>8 DEF Fates

(* What a step of one host has to show for the types.                       *)
LEMMA TypedStep ==
  ASSUME SessionTyped, NEW h \in Hosts, \A d \in Hosts \ {h} : Unmoved(d),
         host' = [d \in Hosts |-> host'[d]], HostSound(h)',
         started' \in Nat, started <= started', approved \subseteq approved', shared' \in BOOLEAN,
         FileSound(session)', FileSound(draft)',
         \A run \in approved' \cup returned' : run \in Nat /\ 0 < run /\ run <= started',
         taught' \subseteq Taught, \A o \in taught' : o.run <= started'
  PROVE  SessionTyped'
<1>1. \A d \in Hosts : HostSound(d)'
  BY HostStep
<1> QED
  BY <1>1 DEF SessionTyped

(* What a step of one host has to show for calls that come alone.           *)
LEMMA OneCallStep ==
  ASSUME SessionTyped, NEW h \in Hosts, \A d \in Hosts \ {h} : Unmoved(d),
         ~shared' => /\ \A d \in Hosts \ {h} : host[d] = Off
                     /\ SessionKept' /\ FilesFollow(h)'
  PROVE  OneCall'
<1> SUFFICES ASSUME ~shared' PROVE OneCall'
  BY DEF OneCall
<1>1. \A d \in Hosts \ {h} : host'[d] = Off
  BY DEF Unmoved
<1>2. \A d \in Hosts \ {h} : FilesFollow(d)'
  BY <1>1 DEF FilesFollow, Off
<1> QED
  BY <1>1, <1>2 DEF OneCall

(* What a host holds at each of its stages.                                 *)
LEMMA HostAt ==
  ASSUME SessionTyped, NEW h \in Hosts
  PROVE  /\ host[h].pc # "off" => host[h] # Off
         /\ host[h] # Off =>
              /\ host[h] \in HostState /\ FileSound(host[h].checkpoint)
              /\ host[h].checkpoint \in SavedTask
              /\ host[h].checkpoint.run <= started
              /\ host[h].checkpoint.stage = "complete" => host[h].checkpoint.run \in approved
              /\ Live(h) => host[h].checkpoint.attempt = 0 /\ host[h].checkpoint.error = FALSE
              /\ ~Live(h) => host[h].checkpoint.attempt > 0
              /\ host[h].pc \in {"learn", "finish"} => host[h].checkpoint.stage = "complete"
              /\ host[h].pc \in Saves /\ host[h].next = "learn"
                   => host[h].checkpoint.stage = "complete"
<1>1. HostSound(h)
  BY DEF SessionTyped
<1>2. Off.pc = "off"
  BY DEF Off
<1>3. host[h] \in HostState => host[h].checkpoint \in SavedTask
  BY DEF HostState
<1> QED
  BY <1>1, <1>2, <1>3 DEF HostSound, FileSound, FileOf

(* As long as calls come alone the other hosts are off.                     *)
LEMMA CallAlone ==
  ASSUME OneCall, ~shared, NEW h \in Hosts, host[h] # Off
  PROVE  SessionKept /\ FilesFollow(h) /\ \A d \in Hosts \ {h} : host[d] = Off
BY DEF OneCall

(* A process moves, and what runs are approved, taught or returned stays.    *)
LEMMA HostMoves ==
  ASSUME SessionInv, NEW h \in Hosts, host[h] # Off, \A d \in Hosts \ {h} : Unmoved(d),
         host' = [d \in Hosts |-> host'[d]], Keep, FileSound(session)', FileSound(draft)',
         HostSound(h)', Live(h)' => Live(h) /\ host'[h].checkpoint.run = host[h].checkpoint.run,
         ~shared => SessionKept' /\ FilesFollow(h)'
  PROVE  SessionInv'
<1>1. UNCHANGED <<started, approved, taught, returned, shared>>
  BY DEF Keep
<1>2. SessionTyped'
  BY <1>1, TypedStep DEF SessionInv, SessionTyped
<1>3. Fates'
  BY <1>1, FatesStep DEF SessionInv
<1>4. ~shared' => \A d \in Hosts \ {h} : host[d] = Off
  BY <1>1, CallAlone DEF SessionInv
<1>5. OneCall'
  BY <1>1, <1>4, OneCallStep DEF SessionInv
<1> QED
  BY <1>2, <1>3, <1>5 DEF SessionInv

(* What a process does on its own, off the disk.                             *)
LEMMA HostProceeds ==
  ASSUME SessionInv, NEW h \in Hosts, host[h] # Off, NEW x, host' = [host EXCEPT ![h] = x],
         Disk, Keep,
         \/ x = Off
         \/ /\ x \in HostState /\ x.checkpoint = host[h].checkpoint
            /\ x.pc \notin Saves \cup {"learn", "finish"} /\ Live(h)
  PROVE  SessionInv'
<1>1. SessionTyped /\ OneCall
  BY DEF SessionInv
<1>2. host'[h] = x /\ (\A d \in Hosts \ {h} : host'[d] = host[d]) /\ host' = [d \in Hosts |-> host'[d]]
  BY <1>1 DEF SessionTyped
<1>3. UNCHANGED <<session, draft, started, approved, taught, returned, shared>>
  BY DEF Disk, Keep
<1>4. FileSound(session)' /\ FileSound(draft)'
  BY <1>1, <1>3 DEF SessionTyped, FileSound
<1>5. HostSound(h)'
  <2>1. CASE x = Off
    BY <1>2, <2>1 DEF HostSound
  <2>2. CASE x \in HostState /\ x.checkpoint = host[h].checkpoint
             /\ x.pc \notin Saves \cup {"learn", "finish"} /\ Live(h)
    <3>1. x # Off
      BY <2>2 DEF HostState, Off, Saves
    <3>2. Live(h)'
      BY <1>2, <2>2, <3>1 DEF Live
    <3> QED
      BY <1>1, <1>2, <1>3, <2>2, <3>2, HostAt DEF HostSound, FileSound
  <2> QED
    BY <2>1, <2>2
<1>6. Live(h)' => Live(h) /\ host'[h].checkpoint.run = host[h].checkpoint.run
  BY <1>2 DEF Live
<1>7. ~shared => SessionKept' /\ FilesFollow(h)'
  <2>1. ~shared => SessionKept'
    BY <1>1, <1>3, CallAlone DEF SessionKept
  <2>2. x.pc \notin {"write", "replace", "learn", "finish"}
    BY DEF Off, Saves
  <2>3. FilesFollow(h)'
    BY <1>2, <2>2 DEF FilesFollow
  <2> QED
    BY <2>1, <2>3
<1>8. \A d \in Hosts \ {h} : Unmoved(d)
  BY <1>2 DEF Unmoved
<1> QED
  BY <1>2, <1>4, <1>5, <1>6, <1>7, <1>8, HostMoves
-------------------------------------------------------------------------------
(* Steps that write no file.                                                *)
LEMMA QuietSteps ==
  ASSUME SessionInv, NEW h \in Hosts,
         \/ RunFails(h) \/ BeforeAgent(h) \/ HostDies(h)
         \/ \E status \in {"accepted", "failed"} : OrchestratorWorks(h, status)
  PROVE  SessionInv'
<1>1. SessionTyped
  BY DEF SessionInv
<1>2. CASE HostDies(h)
  BY <1>2, HostProceeds DEF HostDies, Proceed
<1>3. CASE RunFails(h)
  <2>1. host[h].pc \in {"before", "work", "after", "finish"}
        /\ host' = [host EXCEPT ![h] = [host[h] EXCEPT !.pc = "error"]] /\ Disk /\ Keep
    BY <1>3 DEF RunFails, Proceed
  <2>2. host[h] # Off /\ host[h] \in HostState
    BY <1>1, <2>1, HostAt
  <2> DEFINE x == [host[h] EXCEPT !.pc = "error"]
  <2>3. x \in HostState /\ x.checkpoint = host[h].checkpoint /\ x.pc = "error"
    BY <2>2 DEF HostState
  <2>4. Live(h)
    BY <2>1, <2>2 DEF Live, Saves
  <2> HIDE DEF x
  <2>5. host' = [host EXCEPT ![h] = x]
    BY <2>1 DEF x
  <2>6. x.pc \notin Saves \cup {"learn", "finish"}
    BY <2>3 DEF Saves
  <2> QED
    BY <2>1, <2>2, <2>3, <2>4, <2>5, <2>6, HostProceeds
<1>4. CASE BeforeAgent(h)
  <2>1. host[h].pc = "before"
        /\ host' = [host EXCEPT ![h] = [host[h] EXCEPT !.pc = "work"]] /\ Disk /\ Keep
    BY <1>4 DEF BeforeAgent, Proceed, On
  <2>2. host[h] # Off /\ host[h] \in HostState
    BY <1>1, <2>1, HostAt
  <2> DEFINE x == [host[h] EXCEPT !.pc = "work"]
  <2>3. x \in HostState /\ x.checkpoint = host[h].checkpoint /\ x.pc = "work"
    BY <2>2 DEF HostState
  <2>4. Live(h)
    BY <2>1, <2>2 DEF Live, Saves
  <2> HIDE DEF x
  <2>5. host' = [host EXCEPT ![h] = x]
    BY <2>1 DEF x
  <2>6. x.pc \notin Saves \cup {"learn", "finish"}
    BY <2>3 DEF Saves
  <2> QED
    BY <2>1, <2>2, <2>3, <2>4, <2>5, <2>6, HostProceeds
<1>5. ASSUME NEW status \in {"accepted", "failed"}, OrchestratorWorks(h, status)
      PROVE  SessionInv'
  <2>1. host[h].pc = "work" /\ Disk /\ Keep
        /\ host' = [host EXCEPT ![h] = [host[h] EXCEPT !.pc = "after", !.status = status]]
    BY <1>5 DEF OrchestratorWorks, Proceed, On
  <2>2. host[h] # Off /\ host[h] \in HostState
    BY <1>1, <2>1, HostAt
  <2> DEFINE x == [host[h] EXCEPT !.pc = "after", !.status = status]
  <2>3. x \in HostState /\ x.checkpoint = host[h].checkpoint /\ x.pc = "after"
    BY <2>2 DEF HostState
  <2>4. Live(h)
    BY <2>1, <2>2 DEF Live, Saves
  <2> HIDE DEF x
  <2>5. host' = [host EXCEPT ![h] = x]
    BY <2>1 DEF x
  <2>6. x.pc \notin Saves \cup {"learn", "finish"}
    BY <2>3 DEF Saves
  <2> QED
    BY <2>1, <2>2, <2>3, <2>4, <2>5, <2>6, HostProceeds
<1> QED
  BY <1>2, <1>3, <1>4, <1>5

(* SessionStore.save.                                                        *)
LEMMA OpenStep ==
  ASSUME SessionInv, NEW h \in Hosts, OpenDraft(h)
  PROVE  SessionInv'
<1> DEFINE x == [host[h] EXCEPT !.pc = "write", !.open = "draft"]
<1>1. SessionTyped /\ OneCall
  BY DEF SessionInv
<1>2. /\ host[h].pc = "open" /\ host' = [host EXCEPT ![h] = x] /\ Keep
      /\ draft' = Torn /\ session' = session
  BY DEF OpenDraft, Proceed, On
<1>3. host[h] # Off /\ host[h] \in HostState /\ FileSound(host[h].checkpoint)
  BY <1>1, <1>2, HostAt
<1>4. /\ x \in HostState /\ x.checkpoint = host[h].checkpoint /\ x.next = host[h].next
      /\ x.pc = "write" /\ x.open = "draft"
  BY <1>3 DEF HostState, Saves, Opens
<1> HIDE DEF x
<1>5. host'[h] = x /\ (\A d \in Hosts \ {h} : host'[d] = host[d]) /\ host' = [d \in Hosts |-> host'[d]]
  BY <1>1, <1>2 DEF SessionTyped
<1>6. FileSound(session)' /\ FileSound(draft)'
  BY <1>1, <1>2 DEF SessionTyped, FileSound, FileOf, Keep, Torn, File
<1>7. x # Off
  BY <1>4 DEF Off
<1>8. Live(h)' <=> Live(h)
  BY <1>2, <1>3, <1>4, <1>5, <1>7 DEF Live, Saves
<1>9. HostSound(h)'
  BY <1>1, <1>2, <1>3, <1>4, <1>5, <1>8, HostAt DEF HostSound, FileSound, Keep, Saves
<1>10. ~shared => SessionKept' /\ FilesFollow(h)'
  BY <1>1, <1>2, <1>3, <1>4, <1>5, CallAlone DEF SessionKept, FilesFollow, Keep
<1>11. \A d \in Hosts \ {h} : Unmoved(d)
  BY <1>5 DEF Unmoved
<1> QED
  BY <1>2, <1>3, <1>4, <1>5, <1>6, <1>8, <1>9, <1>10, <1>11, HostMoves

(* The draft, or the session file another process has made of it, gets its  *)
(* text.                                                                    *)
LEMMA WriteStep ==
  ASSUME SessionInv, NEW h \in Hosts, WriteDraft(h)
  PROVE  SessionInv'
<1> DEFINE x == [host[h] EXCEPT !.pc = "replace", !.open = "none"]
<1>1. SessionTyped /\ OneCall
  BY DEF SessionInv
<1>2. /\ host[h].pc = "write" /\ host' = [host EXCEPT ![h] = x] /\ Keep
      /\ IF host[h].open = "draft" THEN draft' \in Over(draft, host[h].checkpoint)
         ELSE draft' = draft
      /\ IF host[h].open = "session" THEN session' \in Over(session, host[h].checkpoint)
         ELSE session' = session
  BY DEF WriteDraft, Proceed, On
<1>3. host[h] # Off /\ host[h] \in HostState /\ FileSound(host[h].checkpoint)
  BY <1>1, <1>2, HostAt
<1>4. /\ x \in HostState /\ x.checkpoint = host[h].checkpoint /\ x.next = host[h].next
      /\ x.pc = "replace" /\ x.open = "none"
  BY <1>3 DEF HostState, Saves, Opens
<1> HIDE DEF x
<1>5. host'[h] = x /\ (\A d \in Hosts \ {h} : host'[d] = host[d]) /\ host' = [d \in Hosts |-> host'[d]]
  BY <1>1, <1>2 DEF SessionTyped
<1>6. FileSound(session)' /\ FileSound(draft)'
  <2>1. /\ session' \in {session, host[h].checkpoint, Torn}
        /\ draft' \in {draft, host[h].checkpoint, Torn}
    BY <1>2 DEF Over
  <2>2. FileSound(Torn) /\ FileSound(session) /\ FileSound(draft)
    BY <1>1 DEF SessionTyped, FileSound, FileOf, Torn, File
  <2> QED
    BY <1>2, <1>3, <2>1, <2>2 DEF FileSound, Keep
<1>7. x # Off
  BY <1>4 DEF Off
<1>8. Live(h)' <=> Live(h)
  BY <1>2, <1>3, <1>4, <1>5, <1>7 DEF Live, Saves
<1>9. HostSound(h)'
  BY <1>1, <1>2, <1>3, <1>4, <1>5, <1>8, HostAt DEF HostSound, FileSound, Keep, Saves
<1>10. ASSUME ~shared
       PROVE  SessionKept' /\ FilesFollow(h)'
  <2>1. draft = Torn /\ host[h].open = "draft" /\ SessionKept
    BY <1>1, <1>2, <1>3, <1>10, CallAlone DEF FilesFollow
  <2>2. draft' = host[h].checkpoint /\ session' = session
    BY <1>2, <2>1 DEF Over
  <2> QED
    BY <1>2, <1>4, <1>5, <2>1, <2>2 DEF SessionKept, FilesFollow, Keep
<1>11. \A d \in Hosts \ {h} : Unmoved(d)
  BY <1>5 DEF Unmoved
<1> QED
  BY <1>2, <1>3, <1>4, <1>5, <1>6, <1>8, <1>9, <1>10, <1>11, HostMoves

(* os.replace makes the temporary file, whoever wrote it, the session.      *)
LEMMA ReplaceStep ==
  ASSUME SessionInv, NEW h \in Hosts, ReplaceFile(h)
  PROVE  SessionInv'
<1>1. SessionTyped /\ OneCall /\ Fates
  BY DEF SessionInv
<1>2. /\ host[h].pc = "replace" /\ Keep /\ draft # Absent /\ session' = draft /\ draft' = Absent
      /\ host' = [d \in Hosts |-> IF d = h THEN Resumed(h)
                                  ELSE [host[d] EXCEPT !.open = Moved(@)]]
  BY DEF ReplaceFile, On
<1>3. host[h] # Off /\ host[h] \in HostState /\ FileSound(host[h].checkpoint)
  BY <1>1, <1>2, HostAt
<1>4. host'[h] = Resumed(h) /\ host' = [d \in Hosts |-> host'[d]]
  BY <1>2
<1>5. ASSUME NEW d \in Hosts \ {h}
      PROVE  Unmoved(d)
  <2>1. host'[d] = [host[d] EXCEPT !.open = Moved(host[d].open)]
    BY <1>2
  <2>2. CASE host[d] = Off
    <3>1. Moved(Off.open) = "none" /\ [Off EXCEPT !.open = "none"] = Off
      BY DEF Off, Moved
    <3> QED
      BY <2>1, <2>2, <3>1 DEF Unmoved
  <2>3. CASE host[d] # Off
    <3>1. host[d] \in HostState
      BY <1>1, <2>3, HostAt
    <3>2. Moved(host[d].open) \in Opens /\ host'[d].open = Moved(host[d].open)
      BY <2>1, <3>1 DEF Moved, Opens, HostState
    <3> QED
      BY <2>1, <2>3, <3>2 DEF Unmoved
  <2> QED
    BY <2>2, <2>3
<1>6. FileSound(session)' /\ FileSound(draft)'
  <2>1. FileSound(Absent) /\ FileSound(draft)
    BY <1>1 DEF SessionTyped, FileSound, FileOf, Absent, File
  <2> QED
    BY <1>2, <2>1 DEF FileSound, Keep
<1>7. CASE host[h].next = "off"
  <2>1. host'[h] = Off
    BY <1>4, <1>7 DEF Resumed
  <2>2. HostSound(h)' /\ ~Live(h)'
    BY <2>1 DEF HostSound, Live
  <2>3. ASSUME ~shared
        PROVE  SessionKept' /\ FilesFollow(h)'
    <3>1. draft = host[h].checkpoint
      BY <1>1, <1>2, <1>3, <2>3, CallAlone DEF FilesFollow
    <3>2. ~Live(h)
      BY <1>2, <1>7 DEF Live, Saves
    <3>3. host[h].checkpoint.attempt > 0 /\ host[h].checkpoint \in SavedTask
      BY <1>1, <1>3, <3>2, HostAt
    <3>4. host[h].checkpoint # Torn /\ host[h].checkpoint.attempt # 0
      BY <3>3 DEF SavedTask, Torn, File
    <3>5. SessionKept'
      BY <1>2, <3>1, <3>4 DEF SessionKept, Keep
    <3>6. FilesFollow(h)'
      BY <2>1 DEF FilesFollow, Off
    <3> QED
      BY <3>5, <3>6
  <2> QED
    BY <1>2, <1>3, <1>4, <1>5, <1>6, <2>2, <2>3, HostMoves
<1>8. CASE host[h].next # "off"
  <2> DEFINE x == [host[h] EXCEPT !.pc = host[h].next]
  <2>1. host'[h] = x
    BY <1>4, <1>8 DEF Resumed
  <2>2. x \in HostState /\ x.checkpoint = host[h].checkpoint /\ x.pc = host[h].next
        /\ x.pc \in {"before", "learn"}
    BY <1>3, <1>8 DEF HostState
  <2> HIDE DEF x
  <2>3. x # Off
    BY <2>2 DEF Off
  <2>4. Live(h) /\ Live(h)'
    BY <1>2, <1>3, <1>8, <2>1, <2>2, <2>3 DEF Live, Saves
  <2>5. HostSound(h)'
    BY <1>1, <1>2, <1>3, <2>1, <2>2, <2>4, HostAt DEF HostSound, FileSound, Keep, Saves
  <2>6. ASSUME ~shared
        PROVE  SessionKept' /\ FilesFollow(h)'
    <3>1. draft = host[h].checkpoint
      BY <1>1, <1>2, <1>3, <2>6, CallAlone DEF FilesFollow
    <3>2. host[h].checkpoint # Torn
      <4>1. host[h].checkpoint \in SavedTask
        BY <1>1, <1>3, HostAt
      <4> QED
        BY <4>1 DEF SavedTask, Torn, File
    <3>3. host[h].checkpoint.run \notin returned
      BY <1>1, <2>4 DEF Fates
    <3>4. SessionKept'
      BY <1>2, <3>1, <3>2, <3>3 DEF SessionKept, Keep
    <3>5. FilesFollow(h)'
      BY <1>2, <2>1, <2>2, <3>1 DEF FilesFollow
    <3> QED
      BY <3>4, <3>5
  <2> QED
    BY <1>2, <1>3, <1>4, <1>5, <1>6, <2>1, <2>2, <2>4, <2>5, <2>6, HostMoves
<1> QED
  BY <1>7, <1>8

(* A save that fails leads to the error path, except the last save of a     *)
(* call.                                                                    *)
LEMMA FailedSave ==
  ASSUME SessionInv, NEW h \in Hosts, SaveFails(h)
  PROVE  SessionInv'
<1>1. SessionTyped
  BY DEF SessionInv
<1>2. host[h].pc \in {"write", "replace"} /\ Disk /\ Keep
  BY DEF SaveFails, Disk
<1>3. host[h] # Off /\ host[h] \in HostState
  BY <1>1, <1>2, HostAt
<1>4. CASE host[h].next # "learn"
  <2>1. host' = [host EXCEPT ![h] = Off]
    BY <1>4 DEF SaveFails, Proceed
  <2> QED
    BY <1>2, <1>3, <2>1, HostProceeds
<1>5. CASE host[h].next = "learn"
  <2> DEFINE x == [host[h] EXCEPT !.pc = "error", !.open = "none"]
  <2>1. host' = [host EXCEPT ![h] = x]
    BY <1>5 DEF SaveFails, Proceed
  <2>2. x \in HostState /\ x.checkpoint = host[h].checkpoint /\ x.pc = "error"
    BY <1>3 DEF HostState, Opens
  <2> HIDE DEF x
  <2>3. Live(h) /\ x.pc \notin Saves \cup {"learn", "finish"}
    BY <1>3, <1>5, <2>2 DEF Live, Saves
  <2> QED
    BY <1>2, <1>3, <2>1, <2>2, <2>3, HostProceeds
<1> QED
  BY <1>4, <1>5

(* run and recover: a new run is live, what recover does is not.             *)
LEMMA CallStep ==
  ASSUME SessionInv, NEW h \in Hosts, StartSession(h) \/ RecoverSession(h)
  PROVE  SessionInv'
<1>1. SessionTyped /\ OneCall /\ Fates
  BY DEF SessionInv
<1>2. /\ host[h] = Off /\ started' = started + 1 /\ started \in Nat
      /\ shared' = (shared \/ \E d \in Hosts : host[d] # Off)
      /\ UNCHANGED <<session, draft, approved, taught, returned>>
  BY <1>1 DEF StartSession, RecoverSession, StartCall, SessionTyped
<1> DEFINE Begun(c, n) ==
      /\ host' = [host EXCEPT ![h] = Saving(h, c, n)]
      /\ c.stage = "execute" /\ c.error = FALSE /\ c.run <= started + 1
      /\ n = "before" => c.run = started + 1 /\ c.attempt = 0
      /\ n = "off" => c.attempt > 0
<1>3. PICK checkpoint \in SavedTask, next \in {"before", "off"} : Begun(checkpoint, next)
  <2>1. CASE StartSession(h)
    <3> DEFINE new == File("execute", started + 1, 0, FALSE)
    <3>1. new \in SavedTask /\ new.stage = "execute" /\ new.error = FALSE
          /\ new.run = started + 1 /\ new.attempt = 0
      BY <1>2 DEF File, SavedTask
    <3>2. host' = [host EXCEPT ![h] = Saving(h, new, "before")]
      BY <2>1 DEF StartSession, Proceed
    <3> HIDE DEF new
    <3>3. Begun(new, "before")
      BY <1>2, <3>1, <3>2
    <3> QED
      BY <3>1, <3>3, Zenon
  <2>2. CASE RecoverSession(h)
    <3> DEFINE again == File("execute", session.run, session.attempt + 1, FALSE)
    <3>1. Readable(session) /\ host' = [host EXCEPT ![h] = Saving(h, again, "off")]
      BY <2>2 DEF RecoverSession, Proceed
    <3>2. session \in SavedTask /\ session.run <= started
      BY <1>1, <3>1 DEF SessionTyped, FileSound, FileOf, Readable, Absent, Torn, File
    <3>3. again \in SavedTask /\ again.stage = "execute" /\ again.error = FALSE
          /\ again.run <= started + 1 /\ again.attempt > 0
      BY <1>2, <3>2 DEF File, SavedTask
    <3> HIDE DEF again
    <3>4. Begun(again, "off")
      BY <3>1, <3>3
    <3> QED
      BY <3>3, <3>4, Zenon
  <2> QED
    BY <2>1, <2>2
<1> DEFINE x == Saving(h, checkpoint, next)
<1>4. x \in HostState /\ x.pc = "open" /\ x.next = next /\ x.checkpoint = checkpoint
  <2>1. Off = [pc |-> "off", checkpoint |-> Absent, open |-> "none", next |-> "off",
               status |-> "none"]
    BY DEF Off
  <2>2. x = [pc |-> "open", checkpoint |-> checkpoint, open |-> "none", next |-> next,
             status |-> "none"]
    <3>1. x = [Off EXCEPT !.pc = "open", !.checkpoint = checkpoint, !.next = next]
      BY <1>2 DEF Saving
    <3> QED
      BY <2>1, <3>1
  <2> QED
    BY <2>2 DEF HostState, Saves, Opens
<1> HIDE DEF x
<1>5. host'[h] = x /\ (\A d \in Hosts \ {h} : host'[d] = host[d]) /\ host' = [d \in Hosts |-> host'[d]]
  BY <1>1, <1>3 DEF SessionTyped, x
<1>6. x # Off
  BY <1>4 DEF Off
<1>7. Live(h)' <=> next = "before"
  BY <1>3, <1>4, <1>5, <1>6 DEF Live, Saves
<1>8. FileOf(checkpoint, started', approved')
  BY <1>2, <1>3 DEF FileOf
<1>9. HostSound(h)'
  BY <1>3, <1>4, <1>5, <1>7, <1>8 DEF HostSound, FileSound, Saves
<1>10. \A d \in Hosts \ {h} : Unmoved(d)
  BY <1>5 DEF Unmoved
<1>11. FileSound(session)' /\ FileSound(draft)'
  <2>1. FileOf(session, started', approved') /\ FileOf(draft, started', approved')
    BY <1>1, <1>2, FileStep DEF SessionTyped
  <2> QED
    BY <1>2, <2>1 DEF FileSound
<1>12. SessionTyped'
  <2>1. \A run \in approved' \cup returned' : run \in Nat /\ 0 < run /\ run <= started'
    BY <1>1, <1>2 DEF SessionTyped
  <2>2. taught' \subseteq Taught /\ \A o \in taught' : o.run <= started'
    BY <1>1, <1>2 DEF SessionTyped, Taught
  <2>3. shared' \in BOOLEAN /\ started' \in Nat /\ started <= started' /\ approved \subseteq approved'
    BY <1>1, <1>2 DEF SessionTyped
  <2> QED
    BY <1>1, <1>5, <1>9, <1>10, <1>11, <2>1, <2>2, <2>3, TypedStep
<1>13. Fates'
  <2>1. Live(h)' => host'[h].checkpoint.run = started + 1
    BY <1>3, <1>4, <1>5, <1>7
  <2> QED
    BY <1>1, <1>2, <1>10, <2>1, FatesStep
<1>14. OneCall'
  <2>1. ~shared' => ~shared /\ \A d \in Hosts \ {h} : host[d] = Off
    BY <1>1, <1>2 DEF SessionTyped
  <2>2. ~shared' => SessionKept'
    BY <1>1, <1>2, <2>1 DEF OneCall, SessionKept
  <2>3. FilesFollow(h)'
    BY <1>4, <1>5 DEF FilesFollow
  <2> QED
    BY <1>1, <1>10, <2>1, <2>2, <2>3, OneCallStep
<1> QED
  BY <1>12, <1>13, <1>14 DEF SessionInv

(* The hook after the work allows its run to be saved as complete.           *)
LEMMA ApprovalStep ==
  ASSUME SessionInv, NEW h \in Hosts, AfterAgent(h)
  PROVE  SessionInv'
<1> DEFINE run == host[h].checkpoint.run
           complete == [host[h].checkpoint EXCEPT !.stage = "complete"]
           x == [host[h] EXCEPT !.pc = "open", !.checkpoint = complete, !.next = "learn"]
<1>1. SessionTyped /\ OneCall /\ Fates
  BY DEF SessionInv
<1>2. /\ host[h].pc = "after" /\ host' = [host EXCEPT ![h] = x] /\ approved' = approved \cup {run}
      /\ UNCHANGED <<session, draft, started, taught, returned, shared>>
  BY DEF AfterAgent, On, Proceed, Saving, Disk
<1>3. /\ host[h] # Off /\ host[h] \in HostState /\ host[h].checkpoint \in SavedTask
      /\ run <= started
  BY <1>1, <1>2, HostAt
<1>4. Live(h)
  BY <1>2, <1>3 DEF Live, Saves
<1>5. host[h].checkpoint.attempt = 0 /\ host[h].checkpoint.error = FALSE
  BY <1>1, <1>3, <1>4, HostAt
<1>6. complete \in SavedTask /\ complete.run = run /\ complete.attempt = 0 /\ complete.error = FALSE
      /\ complete.stage = "complete" /\ run \in Nat /\ 0 < run
  BY <1>3, <1>5 DEF SavedTask
<1> HIDE DEF complete
<1>7. x \in HostState /\ x.pc = "open" /\ x.checkpoint = complete /\ x.next = "learn"
  BY <1>3, <1>6 DEF HostState, Saves
<1> HIDE DEF x, run
<1>8. host'[h] = x /\ (\A d \in Hosts \ {h} : host'[d] = host[d]) /\ host' = [d \in Hosts |-> host'[d]]
  BY <1>1, <1>2 DEF SessionTyped
<1>9. Live(h)'
  BY <1>7, <1>8 DEF Live, Off
<1>10. HostSound(h)'
  <2>1. FileOf(complete, started', approved')
    BY <1>2, <1>3, <1>6 DEF FileOf
  <2> QED
    BY <1>6, <1>7, <1>8, <1>9, <2>1 DEF HostSound, FileSound
<1>11. \A d \in Hosts \ {h} : Unmoved(d)
  BY <1>8 DEF Unmoved
<1>12. FileSound(session)' /\ FileSound(draft)'
  BY <1>1, <1>2, FileStep DEF SessionTyped, FileSound
<1>13. SessionTyped'
  <2>1. \A r \in approved' \cup returned' : r \in Nat /\ 0 < r /\ r <= started'
    BY <1>1, <1>2, <1>3, <1>6 DEF SessionTyped
  <2> QED
    BY <1>1, <1>2, <1>8, <1>10, <1>11, <1>12, <2>1, TypedStep DEF SessionTyped
<1>14. Fates'
  BY <1>1, <1>2, <1>4, <1>6, <1>7, <1>8, <1>11, FatesStep DEF run
<1>15. OneCall'
  <2>1. ~shared' => SessionKept' /\ FilesFollow(h)'
    BY <1>1, <1>2, <1>3, <1>7, <1>8, CallAlone DEF SessionKept, FilesFollow
  <2>2. ~shared' => \A d \in Hosts \ {h} : host[d] = Off
    BY <1>1, <1>2, <1>3, CallAlone
  <2> QED
    BY <1>1, <1>11, <2>1, <2>2, OneCallStep
<1> QED
  BY <1>13, <1>14, <1>15 DEF SessionInv

(* What a run teaches: accepted or failed while it is live, or raised when it*)
(* ceases to be.                                                             *)
LEMMA TeachStep ==
  ASSUME SessionInv, NEW h \in Hosts, NEW succeeds \in BOOLEAN, LearnOutcome(h, succeeds)
  PROVE  SessionInv'
<1> DEFINE x == [host[h] EXCEPT !.pc = "finish"]
           outcome == [run |-> host[h].checkpoint.run, status |-> host[h].status]
<1>1. SessionTyped /\ OneCall /\ Fates
  BY DEF SessionInv
<1>2. /\ host[h].pc = "learn" /\ host' = [host EXCEPT ![h] = x]
      /\ taught' \in {taught, taught \cup {outcome}}
      /\ UNCHANGED <<session, draft, started, approved, returned, shared>>
  BY DEF LearnOutcome, On, Proceed, Teach, Disk
<1>3. /\ host[h] # Off /\ host[h] \in HostState /\ host[h].checkpoint \in SavedTask
      /\ host[h].checkpoint.run <= started /\ FileSound(host[h].checkpoint)
      /\ host[h].checkpoint.stage = "complete" /\ host[h].checkpoint.run \in approved
  BY <1>1, <1>2, HostAt
<1>4. Live(h)
  BY <1>2, <1>3 DEF Live, Saves
<1>5. host[h].checkpoint.attempt = 0 /\ host[h].checkpoint.error = FALSE
  BY <1>1, <1>3, <1>4, HostAt
<1>6. outcome \in Taught /\ outcome.status # "raised" /\ outcome.run = host[h].checkpoint.run
  BY <1>3 DEF Taught, HostState, SavedTask
<1>7. x \in HostState /\ x.pc = "finish" /\ x.checkpoint = host[h].checkpoint
  BY <1>3 DEF HostState
<1> HIDE DEF x, outcome
<1>8. host'[h] = x /\ (\A d \in Hosts \ {h} : host'[d] = host[d]) /\ host' = [d \in Hosts |-> host'[d]]
  BY <1>1, <1>2 DEF SessionTyped
<1>9. Live(h)'
  BY <1>7, <1>8 DEF Live, Off, Saves
<1>10. HostSound(h)'
  BY <1>2, <1>3, <1>5, <1>7, <1>8, <1>9 DEF HostSound, FileSound
<1>11. \A d \in Hosts \ {h} : Unmoved(d)
  BY <1>8 DEF Unmoved
<1>12. FileSound(session)' /\ FileSound(draft)'
  BY <1>1, <1>2 DEF SessionTyped, FileSound
<1>13. SessionTyped'
  <2>1. taught' \subseteq Taught /\ \A o \in taught' : o.run <= started'
    BY <1>1, <1>2, <1>3, <1>6 DEF SessionTyped
  <2> QED
    BY <1>1, <1>2, <1>8, <1>10, <1>11, <1>12, <2>1, TypedStep DEF SessionTyped
<1>14. Fates'
  <2>1. \A run : HasRaised(run)' <=> HasRaised(run)
    <3>1. \A run : [run |-> run, status |-> "raised"] # outcome
      BY <1>6
    <3> QED
      BY <1>2, <3>1 DEF HasRaised
  <2>2. \A o \in taught' : o.status # "raised" => o.run \in approved'
    BY <1>1, <1>2, <1>3, <1>6 DEF Fates
  <2>3. \A d \in Hosts : host'[d].checkpoint = host[d].checkpoint /\ (Live(d)' <=> Live(d))
    BY <1>4, <1>7, <1>8, <1>9 DEF Live
  <2> QED
    BY <1>1, <1>2, <2>1, <2>2, <2>3 DEF Fates
<1>15. OneCall'
  <2>1. ~shared' => SessionKept' /\ FilesFollow(h)'
    BY <1>1, <1>2, <1>3, <1>7, <1>8, CallAlone DEF SessionKept, FilesFollow
  <2>2. ~shared' => \A d \in Hosts \ {h} : host[d] = Off
    BY <1>1, <1>2, <1>3, CallAlone
  <2> QED
    BY <1>1, <1>11, <2>1, <2>2, OneCallStep
<1> QED
  BY <1>13, <1>14, <1>15 DEF SessionInv

(* The error path teaches, then saves; the run is no longer live.           *)
LEMMA RaiseStep ==
  ASSUME SessionInv, NEW h \in Hosts, NEW succeeds \in BOOLEAN, HandleError(h, succeeds)
  PROVE  SessionInv'
<1> DEFINE run == host[h].checkpoint.run
           failed == [host[h].checkpoint EXCEPT !.attempt = @ + 1, !.error = TRUE]
           x == [host[h] EXCEPT !.pc = "open", !.checkpoint = failed, !.next = "off"]
           outcome == [run |-> run, status |-> "raised"]
<1>1. SessionTyped /\ OneCall /\ Fates
  BY DEF SessionInv
<1>2. /\ host[h].pc = "error" /\ host' = [host EXCEPT ![h] = x]
      /\ taught' \in {taught, taught \cup {outcome}}
      /\ UNCHANGED <<session, draft, started, approved, returned, shared>>
  BY DEF HandleError, On, Proceed, Saving, Teach, Disk
<1>3. /\ host[h] # Off /\ host[h] \in HostState /\ host[h].checkpoint \in SavedTask
      /\ run <= started /\ FileSound(host[h].checkpoint)
  BY <1>1, <1>2, HostAt
<1>4. Live(h)
  BY <1>2, <1>3 DEF Live, Saves
<1>5. host[h].checkpoint.attempt = 0
  BY <1>1, <1>3, <1>4, HostAt
<1>6. failed \in SavedTask /\ failed.run = run /\ failed.attempt > 0 /\ run \in Nat
      /\ failed.stage = host[h].checkpoint.stage
  <2>1. ASSUME NEW c \in SavedTask, NEW f, f = [c EXCEPT !.attempt = c.attempt + 1, !.error = TRUE]
        PROVE  f \in SavedTask /\ f.run = c.run /\ f.attempt > 0 /\ c.run \in Nat
               /\ f.stage = c.stage
    <3>1. c.attempt \in Nat /\ c.run \in Nat \ {0} /\ c.stage \in {"execute", "complete"}
          /\ c = [stage |-> c.stage, run |-> c.run, attempt |-> c.attempt, error |-> c.error]
      BY DEF SavedTask
    <3>2. f = [stage |-> c.stage, run |-> c.run, attempt |-> c.attempt + 1, error |-> TRUE]
      BY <2>1, <3>1
    <3>3. c.attempt + 1 \in Nat /\ c.attempt + 1 > 0
      BY <3>1
    <3> HIDE <2>1
    <3>4. f \in SavedTask
      BY <3>1, <3>2, <3>3 DEF SavedTask
    <3>5. f.run = c.run /\ f.attempt > 0 /\ f.stage = c.stage
      BY <3>2, <3>3
    <3> QED
      BY <3>1, <3>4, <3>5
  <2> QED
    BY <1>3, <2>1
<1> HIDE DEF failed
<1>7. x \in HostState /\ x.pc = "open" /\ x.checkpoint = failed /\ x.next = "off"
  BY <1>3, <1>6 DEF HostState, Saves
<1>8. outcome \in Taught /\ outcome.run = run /\ outcome.status = "raised"
      /\ \A r : [run |-> r, status |-> "raised"] = outcome => r = run
  BY <1>6 DEF Taught
<1> HIDE DEF x, run
<1>9. host'[h] = x /\ (\A d \in Hosts \ {h} : host'[d] = host[d]) /\ host' = [d \in Hosts |-> host'[d]]
  BY <1>1, <1>2 DEF SessionTyped
<1>10. ~Live(h)'
  BY <1>7, <1>9 DEF Live, Saves
<1>11. HostSound(h)'
  <2>1. FileOf(failed, started', approved')
    BY <1>2, <1>3, <1>6 DEF FileOf, FileSound, run
  <2> QED
    BY <1>6, <1>7, <1>9, <1>10, <2>1 DEF HostSound, FileSound
<1>12. \A d \in Hosts \ {h} : Unmoved(d)
  BY <1>9 DEF Unmoved
<1>13. FileSound(session)' /\ FileSound(draft)'
  BY <1>1, <1>2 DEF SessionTyped, FileSound
<1> HIDE DEF outcome
<1>14. SessionTyped'
  <2>1. taught' \subseteq Taught /\ \A o \in taught' : o.run <= started'
    BY <1>1, <1>2, <1>3, <1>8 DEF SessionTyped
  <2> QED
    BY <1>1, <1>2, <1>9, <1>11, <1>12, <1>13, <2>1, TypedStep DEF SessionTyped
<1>15. Fates'
  <2>1. \A r : HasRaised(r)' => HasRaised(r) \/ r = run
    BY <1>2, <1>8 DEF HasRaised
  <2>2. run \notin returned
    BY <1>1, <1>4 DEF Fates, run
  <2>3. \A d \in Hosts : Live(d)' => d # h /\ Live(d) /\ host'[d].checkpoint = host[d].checkpoint
    BY <1>9, <1>10 DEF Live
  <2>4. \A d \in Hosts \ {h} : Live(d) => host[d].checkpoint.run # run
    BY <1>1, <1>4 DEF Fates, run
  <2>5. \A o \in taught' : o.status # "raised" => o.run \in approved'
    BY <1>1, <1>2, <1>8 DEF Fates
  <2>6. \A r \in returned' : ~HasRaised(r)'
    BY <1>1, <1>2, <2>1, <2>2 DEF Fates
  <2>7. \A d \in Hosts : Live(d)' =>
          /\ host'[d].checkpoint.run \notin returned'
          /\ [run |-> host'[d].checkpoint.run, status |-> "raised"] \notin taught'
    <3> SUFFICES ASSUME NEW d \in Hosts, Live(d)'
                 PROVE  /\ host'[d].checkpoint.run \notin returned'
                        /\ [run |-> host'[d].checkpoint.run, status |-> "raised"] \notin taught'
      OBVIOUS
    <3>1. PICK r : r = host[d].checkpoint.run /\ host'[d].checkpoint.run = r
      BY <2>3
    <3>2. r \notin returned /\ ~HasRaised(r) /\ r # run
      BY <1>1, <2>3, <2>4, <3>1 DEF Fates
    <3>3. ~HasRaised(r)'
      BY <2>1, <3>2
    <3> QED
      BY <1>2, <3>1, <3>2, <3>3 DEF HasRaised
  <2>8. \A c, d \in Hosts : Live(c)' /\ Live(d)'
          /\ host'[c].checkpoint.run = host'[d].checkpoint.run => c = d
    BY <1>1, <2>3 DEF Fates
  <2> QED
    BY <2>5, <2>6, <2>7, <2>8 DEF Fates, HasRaised
<1>16. OneCall'
  <2>1. ~shared' => SessionKept' /\ FilesFollow(h)'
    BY <1>1, <1>2, <1>3, <1>7, <1>9, CallAlone DEF SessionKept, FilesFollow
  <2>2. ~shared' => \A d \in Hosts \ {h} : host[d] = Off
    BY <1>1, <1>2, <1>3, CallAlone
  <2> QED
    BY <1>1, <1>12, <2>1, <2>2, OneCallStep
<1> QED
  BY <1>14, <1>15, <1>16 DEF SessionInv

(* A run returns what is saved as complete, and is no longer live.          *)
LEMMA ReturnStep ==
  ASSUME SessionInv, NEW h \in Hosts, ReturnResult(h)
  PROVE  SessionInv'
<1> DEFINE run == host[h].checkpoint.run
<1>1. SessionTyped /\ OneCall /\ Fates
  BY DEF SessionInv
<1>2. /\ host[h].pc = "finish" /\ host' = [host EXCEPT ![h] = Off]
      /\ returned' = returned \cup {run}
      /\ UNCHANGED <<session, draft, started, approved, taught, shared>>
  BY DEF ReturnResult, On, Proceed, Disk
<1>3. /\ host[h] # Off /\ host[h].checkpoint \in SavedTask /\ run <= started
      /\ host[h].checkpoint.stage = "complete"
  BY <1>1, <1>2, HostAt
<1>4. Live(h)
  BY <1>2, <1>3 DEF Live, Saves
<1>5. host[h].checkpoint.error = FALSE /\ run \in Nat /\ 0 < run
  <2>1. run \in Nat /\ 0 < run
    BY <1>3 DEF SavedTask
  <2> QED
    BY <1>1, <1>3, <1>4, <2>1, HostAt
<1> HIDE DEF run
<1>6. host'[h] = Off /\ (\A d \in Hosts \ {h} : host'[d] = host[d]) /\ host' = [d \in Hosts |-> host'[d]]
  BY <1>1, <1>2 DEF SessionTyped
<1>7. HostSound(h)' /\ \A d \in Hosts \ {h} : Unmoved(d)
  BY <1>6 DEF HostSound, Unmoved
<1>8. FileSound(session)' /\ FileSound(draft)'
  BY <1>1, <1>2 DEF SessionTyped, FileSound
<1>9. SessionTyped'
  <2>1. \A r \in approved' \cup returned' : r \in Nat /\ 0 < r /\ r <= started'
    BY <1>1, <1>2, <1>3, <1>5 DEF SessionTyped
  <2> QED
    BY <1>1, <1>2, <1>6, <1>7, <1>8, <2>1, TypedStep DEF SessionTyped
<1>10. Fates'
  <2>1. ~HasRaised(run) /\ \A r : HasRaised(r)' <=> HasRaised(r)
    BY <1>1, <1>2, <1>4 DEF Fates, HasRaised, run
  <2>2. \A d \in Hosts : Live(d)' => d # h /\ Live(d) /\ host'[d].checkpoint = host[d].checkpoint
    BY <1>6 DEF Live
  <2>3. \A d \in Hosts \ {h} : Live(d) => host[d].checkpoint.run # run
    BY <1>1, <1>4 DEF Fates, run
  <2>4. \A d \in Hosts : Live(d)' =>
          host'[d].checkpoint.run \notin returned' /\ ~HasRaised(host'[d].checkpoint.run)
    BY <1>1, <1>2, <2>2, <2>3 DEF Fates
  <2> QED
    BY <1>1, <1>2, <2>1, <2>2, <2>4 DEF Fates
<1>11. OneCall'
  <2>1. ~shared => session = host[h].checkpoint /\ SessionKept /\ \A d \in Hosts \ {h} : host[d] = Off
    BY <1>1, <1>2, <1>3, CallAlone DEF FilesFollow
  <2>2. ~shared' => SessionKept'
    <3>1. ~shared => session.run = run /\ session.stage = "complete" /\ ~session.error
      BY <1>3, <1>5, <2>1 DEF run
    <3> QED
      BY <1>2, <2>1, <3>1 DEF SessionKept
  <2>3. FilesFollow(h)'
    BY <1>6 DEF FilesFollow, Off
  <2> QED
    BY <1>1, <1>2, <1>7, <2>1, <2>2, <2>3, OneCallStep
<1> QED
  BY <1>9, <1>10, <1>11 DEF SessionInv

(* One step for each action of a host.                                      *)
LEMMA SessionInvNext == SessionInv /\ [SessionNext]_sessionVars => SessionInv'
<1> SUFFICES ASSUME SessionInv, [SessionNext]_sessionVars PROVE SessionInv'
  OBVIOUS
<1>1. CASE UNCHANGED sessionVars
  BY <1>1 DEF sessionVars, SessionInv, SessionTyped, Fates, OneCall, SessionKept, FilesFollow,
              FileSound, HostSound, Live, HasRaised
<1>2. CASE SessionNext
  BY <1>2, QuietSteps, OpenStep, WriteStep, ReplaceStep, FailedSave, CallStep, ApprovalStep,
     TeachStep, RaiseStep, ReturnStep DEF SessionNext
<1> QED
  BY <1>1, <1>2

(* session_state.py:38, "Atomic JSON checkpoints": for any number of         *)
(* processes and calls, whatever fails or dies, a session used by one call at*)
(* a time can be read and holds what returned; and always it is complete, and*)
(* an outcome taught, only as the hook after the work allowed.               *)
THEOREM Sessions == SessionSpec => []SessionSound
<1>1. SessionInit => SessionInv
  BY SessionInvInit
<1>2. SessionInv /\ [SessionNext]_sessionVars => SessionInv'
  BY SessionInvNext
<1>3. SessionInv => SessionSound
  BY SessionInvImplies
<1> QED
  BY <1>1, <1>2, <1>3, PTL DEF SessionSpec
-------------------------------------------------------------------------------
(* An episode that one call at a time works on.  Where the call is tells how *)
(* often the work was executed and what the row says of it: the row counts   *)
(* an execution before it begins.  Only an execution whose verification      *)
(* failed is followed by another one, and what it left pending keeps the next*)
(* plan from being empty, so that no episode completes on it.                *)
BeforeWork == {"predict", "plan", "load", "checkpoint"}
AfterWork == {"verify", "record", "review", "learn"}
EpisodeRow == [state : {"absent", "running", "verifying"} \cup Ended, iteration : Nat,
               family : Families \cup {NoFamily}]
FindingRow == [status : FindingStatuses \cup {"absent"}, attempts : Nat,
               severe : BOOLEAN, family : Families \cup {NoFamily}]
CallRow == [pc : BeforeWork \cup AfterWork \cup {"escalate", "start", "execute", "final", "raised"},
            call : Nat, family : Families, seen : Nat, start : Nat, round : Nat,
            todo : SUBSET Findings, passed : BOOLEAN, accepted : BOOLEAN]
Executions == [call : Nat, family : Families, round : Nat]
EpisodeTyped ==
  /\ episode \in EpisodeRow /\ engineer \in [Engineers -> CallRow \cup {Free}]
  /\ backlog \in [Findings -> FindingRow] /\ calls \in Nat
  /\ work \in SUBSET Executions /\ IsFiniteSet(work)
  /\ owner \in Families \cup {NoFamily} /\ overlapped \in BOOLEAN /\ meddled \in Nat
RowKept ==
  /\ \A one, other \in work : one.call = other.call
  /\ \A execution \in work : execution.family = owner
  /\ episode.state \in {"absent", "running"} => work = {} /\ episode.iteration = 0
  /\ episode.state = "absent" => owner = NoFamily
  /\ episode.state = "running" => episode.family = owner
  /\ episode.state = "verifying" => episode.iteration - Cardinality(work) \in {0, 1}
  /\ episode.state = "completed" /\ meddled = 0 /\ work # {} => verified = "passed"
Counted(n) == Cardinality(work) = n /\ \A execution \in work : execution.round <= n
Sits(c) ==
  /\ c.pc # "free" => episode.state \notin Ended
  /\ c.pc = "escalate" => episode.state = "verifying"
  /\ c.pc = "start" => /\ episode.state \in {"absent", "running"} /\ c.start = 0
                       /\ episode.state = "running" => c.family = owner
  /\ c.pc \notin {"free", "escalate", "start"} =>
       /\ episode.state \in {"running", "verifying"} /\ c.family = owner
       /\ \A execution \in work : execution.call = c.call
  /\ c.pc \in BeforeWork =>
       c.round > 0 /\ episode.iteration = c.round - 1 /\ Counted(c.round - 1)
  /\ c.pc = "checkpoint" => c.seen = episode.iteration
  /\ c.pc = "execute" => c.round > 0 /\ Counted(c.round - 1)
  /\ c.pc \in AfterWork => Counted(c.round)
  /\ c.pc \in AfterWork \cup {"execute"} =>
       episode.state = "verifying" /\ episode.iteration = c.round
  /\ c.pc \in {"record", "review", "learn"} => (c.passed <=> verified = "passed")
  /\ c.pc = "review" => c.passed
  /\ meddled = 0 /\ (\/ c.pc = "learn" /\ ~c.passed
                     \/ c.pc \in {"predict", "plan"} /\ work # {}) => PendingOf(c.family) # {}
  /\ c.pc # "final" => ~c.accepted
  /\ c.pc = "final" /\ c.accepted /\ meddled = 0 /\ work # {} => verified = "passed"
OneEngineer ==
  /\ \A d, e \in Engineers : engineer[d] # Free /\ engineer[e] # Free => d = e
  /\ RowKept /\ \A e \in Engineers : Sits(engineer[e])
EpisodeInv == EpisodeTyped /\ (~overlapped => OneEngineer)

(* The invariant of an episode carries what the run checks of it.           *)
LEMMA EpisodeInvImplies == EpisodeInv => EpisodeSound
BY DEF EpisodeInv, OneEngineer, RowKept, EpisodeSound

(* An engineer without a call.                                              *)
LEMMA FreeCall ==
  /\ Free.pc = "free" /\ Free.accepted = FALSE
  /\ \A c \in CallRow : c.pc # "free" /\ c # Free
BY DEF Free, CallRow, BeforeWork, AfterWork

(* It is in nobody's way.                                                   *)
LEMMA FreeSits == Sits(Free)
BY FreeCall DEF Sits, BeforeWork, AfterWork

(* No call yet and no work.                                                 *)
LEMMA EpisodeInvInit == EpisodeInit => EpisodeInv
<1> SUFFICES ASSUME EpisodeInit PROVE EpisodeInv
  OBVIOUS
<1>1. EpisodeTyped
  <2>1. IsFiniteSet({}) /\ work = {}
    BY FS_EmptySet DEF EpisodeInit
  <2>2. episode \in EpisodeRow
    BY DEF EpisodeInit, EpisodeRow
  <2>3. backlog \in [Findings -> FindingRow]
    BY EpisodeAssumption DEF EpisodeInit, FindingRow
  <2> QED
    BY <2>1, <2>2, <2>3 DEF EpisodeInit, EpisodeTyped
<1>2. RowKept
  BY DEF EpisodeInit, RowKept
<1>3. OneEngineer
  BY <1>2, FreeSits DEF EpisodeInit, OneEngineer
<1> QED
  BY <1>1, <1>3 DEF EpisodeInv

(* What a step of a call that is alone must show of the row and of where it  *)
(* goes on.                                                                  *)
LEMMA EngineerStep ==
  ASSUME EpisodeInv, NEW e \in Engineers, engineer[e] # Free,
         NEW call \in CallRow \cup {Free}, engineer' = [engineer EXCEPT ![e] = call],
         episode' \in EpisodeRow, backlog' \in [Findings -> FindingRow],
         work' \in SUBSET Executions, IsFiniteSet(work'), owner' \in Families \cup {NoFamily},
         UNCHANGED <<calls, overlapped, meddled>>,
         ~overlapped => RowKept' /\ Sits(call)'
  PROVE  EpisodeInv'
<1>1. EpisodeTyped
  BY DEF EpisodeInv
<1>2. EpisodeTyped'
  BY <1>1 DEF EpisodeTyped
<1>3. ASSUME ~overlapped PROVE OneEngineer'
  <2>1. \A d \in Engineers : d # e => engineer[d] = Free
    BY <1>3 DEF EpisodeInv, OneEngineer
  <2>2. \A d \in Engineers : engineer'[d] = IF d = e THEN call ELSE Free
    BY <1>1, <2>1 DEF EpisodeTyped
  <2>3. Sits(Free)'
    BY FreeCall DEF Sits, BeforeWork, AfterWork
  <2>4. \A d \in Engineers : Sits(engineer[d])'
    BY <1>3, <2>2, <2>3 DEF Sits
  <2> QED
    BY <1>3, <2>2, <2>4 DEF OneEngineer
<1> QED
  BY <1>1, <1>2, <1>3 DEF EpisodeInv, EpisodeTyped

(* What the invariant tells a call that is alone.                            *)
LEMMA EngineerAt ==
  ASSUME EpisodeInv, NEW e \in Engineers, engineer[e].pc # "free"
  PROVE  /\ engineer[e] \in CallRow /\ engineer[e] # Free /\ EpisodeTyped
         /\ ~overlapped => RowKept /\ Sits(engineer[e])
<1>1. engineer[e] \in CallRow \cup {Free}
  BY DEF EpisodeInv, EpisodeTyped
<1> QED
  BY <1>1, FreeCall DEF EpisodeInv, OneEngineer

(* A call loads the row: it begins, goes on, or finds work whose result is  *)
(* unknown.                                                                 *)
LEMMA BeginEpisodeStep ==
  ASSUME EpisodeInv, NEW e \in Engineers, NEW family \in Families, BeginEpisode(e, family)
  PROVE  EpisodeInv'
<1>1. EpisodeTyped
  BY DEF EpisodeInv
<1>2. /\ engineer[e] = Free /\ calls' = calls + 1
      /\ overlapped' = (overlapped \/ \E other \in Engineers : engineer[other] # Free)
      /\ UNCHANGED <<episode, backlog, work, verified, owner, meddled>>
  BY DEF BeginEpisode, Called
<1>3. CASE Refused(family)
  <2>1. UNCHANGED engineer
    BY <1>3 DEF BeginEpisode
  <2>2. EpisodeTyped'
    BY <1>1, <1>2, <2>1 DEF EpisodeTyped
  <2>3. ASSUME ~overlapped' PROVE OneEngineer'
    <3>1. OneEngineer
      BY <1>2, <2>3 DEF EpisodeInv
    <3>2. RowKept'
      BY <1>2, <3>1 DEF OneEngineer, RowKept
    <3>3. \A c : Sits(c) => Sits(c)'
      BY <1>2 DEF Sits, Counted, PendingOf, FindingsOf
    <3>4. \A d \in Engineers : Sits(engineer[d])'
      BY <2>1, <3>1, <3>3 DEF OneEngineer, Sits
    <3> QED
      BY <2>1, <3>1, <3>2, <3>4 DEF OneEngineer
  <2> QED
    BY <2>2, <2>3 DEF EpisodeInv
<1>4. CASE ~Refused(family)
  <2>1. PICK pc \in {"escalate", "start"} :
          /\ pc = IF episode.state = "verifying" THEN "escalate" ELSE "start"
          /\ engineer' = [engineer EXCEPT ![e] = Mine(family, pc)]
    BY <1>4 DEF BeginEpisode, Continue
  <2>2. PICK call : call = Mine(family, pc)
    OBVIOUS
  <2>3. /\ call \in CallRow /\ call.pc = pc /\ call.family = family
        /\ call.start = episode.iteration /\ call.accepted = FALSE
    <3>1. call = [pc |-> pc, call |-> calls + 1, family |-> family, seen |-> 0,
                  start |-> episode.iteration, round |-> 0, todo |-> {}, passed |-> FALSE,
                  accepted |-> FALSE]
      BY <2>2 DEF Mine, Free
    <3>2. calls + 1 \in Nat /\ episode.iteration \in Nat
      BY <1>1 DEF EpisodeTyped, EpisodeRow
    <3> QED
      BY <3>1, <3>2 DEF CallRow
  <2>4. EpisodeTyped'
    BY <1>1, <1>2, <2>1, <2>2, <2>3 DEF EpisodeTyped
  <2>5. ASSUME ~overlapped' PROVE OneEngineer'
    <3>1. /\ ~overlapped /\ \A d \in Engineers : engineer[d] = Free
      BY <1>2, <2>5
    <3>2. \A d \in Engineers : engineer'[d] = IF d = e THEN call ELSE Free
      BY <1>1, <2>1, <2>2, <3>1 DEF EpisodeTyped
    <3>3. RowKept
      BY <3>1 DEF EpisodeInv, OneEngineer
    <3>4. RowKept'
      BY <1>2, <3>3 DEF RowKept
    <3>5. /\ episode.state \notin Ended
          /\ episode.state = "running" => episode.family = family
      BY <1>4 DEF Refused
    <3>6. episode.state \in {"absent", "running", "verifying"}
      BY <1>1, <3>5 DEF EpisodeTyped, EpisodeRow
    <3>7. Sits(call)
      BY <2>1, <2>3, <3>3, <3>5, <3>6 DEF Sits, RowKept, BeforeWork, AfterWork
    <3>8. Sits(call)' /\ Sits(Free)'
      BY <1>2, <3>7, FreeSits DEF Sits, Counted, PendingOf, FindingsOf
    <3>9. \A d \in Engineers : Sits(engineer[d])'
      BY <3>2, <3>8 DEF Sits
    <3> QED
      BY <3>2, <3>4, <3>9 DEF OneEngineer
  <2> QED
    BY <2>4, <2>5 DEF EpisodeInv
<1> QED
  BY <1>3, <1>4

(* A call that writes its state to the row and is done.                      *)
LEMMA LastSaveStep ==
  ASSUME EpisodeInv, NEW e \in Engineers, engineer[e].pc # "free",
         NEW state \in Ended, NEW iteration \in Nat, SaveEpisode(e, state, iteration),
         engineer' = [engineer EXCEPT ![e] = Free],
         UNCHANGED <<backlog, calls, work, verified, owner, overlapped, meddled>>,
         ~overlapped /\ state = "completed" /\ meddled = 0 /\ work # {} => verified = "passed"
  PROVE  EpisodeInv'
<1>1. engineer[e] \in CallRow /\ engineer[e] # Free /\ EpisodeTyped
        /\ (~overlapped => RowKept /\ Sits(engineer[e]))
  BY EngineerAt
<1>2. episode' \in EpisodeRow /\ episode'.state = state
  BY <1>1 DEF SaveEpisode, EpisodeRow, CallRow
<1>3. ~overlapped => RowKept'
  BY <1>1, <1>2 DEF RowKept, Ended
<1>4. Sits(Free)'
  BY FreeCall DEF Sits, BeforeWork, AfterWork
<1> QED
  BY <1>1, <1>2, <1>3, <1>4, EngineerStep DEF EpisodeTyped

(* The saves that end a call.                                               *)
LEMMA LastSaves ==
  ASSUME EpisodeInv, NEW e \in Engineers, Escalate(e) \/ SaveReceipt(e) \/ SaveFailed(e)
  PROVE  EpisodeInv'
<1>1. engineer[e].pc \in {"escalate", "final", "raised"}
  BY DEF Escalate, SaveReceipt, SaveFailed, InCall
<1>2. engineer[e] \in CallRow /\ engineer[e] # Free /\ EpisodeTyped
        /\ (~overlapped => RowKept /\ Sits(engineer[e]))
  BY <1>1, EngineerAt
<1>3. /\ engineer' = [engineer EXCEPT ![e] = Free]
      /\ UNCHANGED <<backlog, calls, work, verified, owner, overlapped, meddled>>
  BY DEF Escalate, SaveReceipt, SaveFailed, Continue
<1>4. engineer[e].start \in Nat /\ engineer[e].round \in Nat /\ episode.iteration \in Nat
  BY <1>2 DEF CallRow, EpisodeTyped, EpisodeRow
<1>5. CASE Escalate(e)
  BY <1>1, <1>3, <1>4, <1>5, LastSaveStep DEF Escalate, Ended
<1>6. CASE SaveReceipt(e)
  <2>1. PICK state \in {"completed", "escalated"} :
          /\ SaveEpisode(e, state, engineer[e].start + engineer[e].round)
          /\ state = "completed" => engineer[e].accepted
    BY <1>2, <1>6 DEF SaveReceipt, CallRow
  <2>2. engineer[e].start + engineer[e].round \in Nat /\ state \in Ended
    BY <1>4 DEF Ended
  <2>3. ~overlapped /\ state = "completed" /\ meddled = 0 /\ work # {} => verified = "passed"
    BY <1>2, <1>6, <2>1 DEF SaveReceipt, InCall, Sits
  <2> QED
    BY <1>1, <1>3, <2>1, <2>2, <2>3, LastSaveStep
<1>7. CASE SaveFailed(e)
  BY <1>1, <1>3, <1>4, <1>7, LastSaveStep DEF SaveFailed, Ended
<1> QED
  BY <1>5, <1>6, <1>7

(* The save with which a call takes the episode up.                         *)
LEMMA SaveRunningStep ==
  ASSUME EpisodeInv, NEW e \in Engineers, SaveRunning(e)
  PROVE  EpisodeInv'
<1>1. engineer[e].pc = "start"
  BY DEF SaveRunning, InCall
<1>2. engineer[e] \in CallRow /\ engineer[e] # Free /\ EpisodeTyped
        /\ (~overlapped => RowKept /\ Sits(engineer[e]))
  BY <1>1, EngineerAt
<1>3. PICK call : call = [engineer[e] EXCEPT !.pc = "predict", !.round = 1]
  OBVIOUS
<1>4. /\ call \in CallRow /\ call.pc = "predict" /\ call.round = 1
      /\ call.family = engineer[e].family /\ call.accepted = engineer[e].accepted
  BY <1>2, <1>3 DEF CallRow, BeforeWork
<1>5. /\ engineer' = [engineer EXCEPT ![e] = call]
      /\ owner' = IF owner = NoFamily THEN call.family ELSE owner
      /\ UNCHANGED <<backlog, calls, work, verified, overlapped, meddled>>
  BY <1>3, <1>4 DEF SaveRunning, Continue
<1>6. /\ episode' \in EpisodeRow /\ episode'.state = "running" /\ episode'.family = call.family
      /\ episode'.iteration = engineer[e].start
  BY <1>2, <1>4 DEF SaveRunning, SaveEpisode, EpisodeRow, CallRow
<1>7. owner' \in Families \cup {NoFamily}
  BY <1>2, <1>4, <1>5 DEF EpisodeTyped, CallRow
<1>8. ASSUME ~overlapped PROVE RowKept' /\ Sits(call)'
  <2>1. work = {} /\ engineer[e].start = 0 /\ episode.state \in {"absent", "running"}
    BY <1>1, <1>2, <1>8 DEF Sits, RowKept
  <2>2. owner' = call.family
    BY <1>1, <1>2, <1>4, <1>5, <1>8, <2>1 DEF Sits, RowKept
  <2>3. Cardinality(work) = 0
    BY <2>1, FS_EmptySet
  <2>4. RowKept'
    BY <1>5, <1>6, <2>1, <2>2 DEF RowKept
  <2>5. ~call.accepted
    BY <1>1, <1>2, <1>4, <1>8 DEF Sits
  <2>6. Sits(call)'
    BY <1>4, <1>5, <1>6, <2>1, <2>2, <2>3, <2>5 DEF Sits, Counted, BeforeWork, AfterWork, Ended
  <2> QED
    BY <2>4, <2>6
<1> QED
  BY <1>2, <1>4, <1>5, <1>6, <1>7, <1>8, EngineerStep DEF EpisodeTyped

(* A step that changes neither the row nor the work: the call goes on, and   *)
(* the backlog may have changed.                                             *)
LEMMA CallGoesOn ==
  ASSUME EpisodeInv, NEW e \in Engineers, engineer[e].pc # "free",
         NEW call \in CallRow \cup {Free}, engineer' = [engineer EXCEPT ![e] = call],
         backlog' \in [Findings -> FindingRow],
         UNCHANGED <<episode, calls, work, verified, owner, overlapped, meddled>>,
         ~overlapped => Sits(call)'
  PROVE  EpisodeInv'
<1>1. engineer[e] # Free /\ EpisodeTyped /\ (~overlapped => RowKept)
  BY EngineerAt
<1>2. ~overlapped => RowKept'
  BY <1>1 DEF RowKept
<1> QED
  BY <1>1, <1>2, EngineerStep DEF EpisodeTyped

(* A death leaves the row as it is, in particular when work is under way.   *)
LEMMA DiesStep ==
  ASSUME EpisodeInv, NEW e \in Engineers, EngineerDies(e)
  PROVE  EpisodeInv'
<1>1. engineer[e] # Free /\ engineer' = [engineer EXCEPT ![e] = Free] /\ Unwritten
  BY DEF EngineerDies, Continue
<1>2. EpisodeTyped /\ engineer[e] \in CallRow
  BY <1>1 DEF EpisodeInv, EpisodeTyped
<1>3. engineer[e].pc # "free"
  BY <1>2, FreeCall
<1>4. Sits(Free)'
  BY FreeCall DEF Sits, BeforeWork, AfterWork
<1> QED
  BY <1>1, <1>2, <1>3, <1>4, CallGoesOn DEF Unwritten, EpisodeTyped

(* Up to the checkpoint: nothing is written.                                 *)
LEMMA BeforeWorkStep ==
  ASSUME EpisodeInv, NEW e \in Engineers,
         Predict(e) \/ Plan(e) \/ LoadCheckpoint(e) \/ LoopRaises(e)
  PROVE  EpisodeInv'
<1>1. engineer[e].pc \in InLoop
  BY DEF Predict, Plan, LoadCheckpoint, LoopRaises, InCall, InLoop
<1>2. engineer[e].pc # "free" /\ engineer[e].pc \notin {"escalate", "start", "final", "raised"}
  BY <1>1 DEF InLoop
<1>3. engineer[e] \in CallRow /\ engineer[e] # Free /\ EpisodeTyped
        /\ (~overlapped => RowKept /\ Sits(engineer[e]))
  BY <1>2, EngineerAt
<1>4. Unwritten
  BY DEF Predict, Plan, LoadCheckpoint, LoopRaises
<1> PICK c \in CallRow : c = engineer[e]
  BY <1>3
<1>5. ~overlapped => ~c.accepted
  BY <1>2, <1>3 DEF Sits
<1>6. PendingOf(c.family) \in SUBSET Findings
  BY DEF PendingOf, FindingsOf
<1>7. \E call \in CallRow : engineer' = [engineer EXCEPT ![e] = call] /\ (~overlapped => Sits(call))
  <2>1. CASE Predict(e)
    <3>1. PICK call : /\ call = [c EXCEPT !.pc = IF Risky(c.family) THEN "final" ELSE "plan"]
                      /\ engineer' = [engineer EXCEPT ![e] = call]
      BY <2>1 DEF Predict, Continue
    <3>2. /\ call \in CallRow /\ call.pc \in {"final", "plan"} /\ call.round = c.round
          /\ call.family = c.family /\ call.call = c.call /\ call.accepted = c.accepted
      BY <3>1 DEF CallRow, BeforeWork
    <3>3. ~overlapped => Sits(call)
      BY <1>3, <1>5, <2>1, <3>2 DEF Predict, InCall, Sits, BeforeWork, AfterWork
    <3> QED
      BY <3>1, <3>2, <3>3
  <2>2. CASE Plan(e) /\ PendingOf(c.family) = {}
    <3>1. PICK call : /\ call = [c EXCEPT !.pc = "final", !.accepted = TRUE]
                      /\ engineer' = [engineer EXCEPT ![e] = call]
      BY <2>2 DEF Plan, Continue
    <3>2. /\ call \in CallRow /\ call.pc = "final" /\ call.family = c.family /\ call.call = c.call
      BY <3>1 DEF CallRow
    <3>3. ~overlapped => Sits(call)
      BY <1>3, <2>2, <3>2 DEF Plan, InCall, Sits, BeforeWork, AfterWork
    <3> QED
      BY <3>1, <3>2, <3>3
  <2>3. CASE Plan(e) /\ PendingOf(c.family) # {}
    <3>1. PICK call : /\ call = [c EXCEPT !.pc = "load", !.todo = PendingOf(c.family)]
                      /\ engineer' = [engineer EXCEPT ![e] = call]
      BY <2>3 DEF Plan, Continue
    <3>2. /\ call \in CallRow /\ call.pc = "load" /\ call.family = c.family /\ call.call = c.call
          /\ call.round = c.round /\ call.accepted = c.accepted
      BY <1>6, <3>1 DEF CallRow, BeforeWork
    <3>3. ~overlapped => Sits(call)
      BY <1>3, <1>5, <2>3, <3>2 DEF Plan, InCall, Sits, BeforeWork, AfterWork
    <3> QED
      BY <3>1, <3>2, <3>3
  <2>4. CASE LoadCheckpoint(e)
    <3>1. PICK call : /\ call = [c EXCEPT !.pc = "checkpoint", !.seen = episode.iteration]
                      /\ engineer' = [engineer EXCEPT ![e] = call]
      BY <2>4 DEF LoadCheckpoint, Continue
    <3>2. /\ call \in CallRow /\ call.pc = "checkpoint" /\ call.family = c.family
          /\ call.call = c.call /\ call.round = c.round /\ call.accepted = c.accepted
          /\ call.seen = episode.iteration
      BY <1>3, <3>1 DEF CallRow, BeforeWork, EpisodeTyped, EpisodeRow
    <3>3. ~overlapped => Sits(call)
      BY <1>3, <1>5, <2>4, <3>2 DEF LoadCheckpoint, InCall, Sits, BeforeWork, AfterWork
    <3> QED
      BY <3>1, <3>2, <3>3
  <2>5. CASE LoopRaises(e)
    <3>1. PICK call : /\ call = [c EXCEPT !.pc = "raised"]
                      /\ engineer' = [engineer EXCEPT ![e] = call]
      BY <2>5 DEF LoopRaises, Continue
    <3>2. /\ call \in CallRow /\ call.pc = "raised" /\ call.family = c.family
          /\ call.call = c.call /\ call.accepted = c.accepted
      BY <3>1 DEF CallRow
    <3>3. ~overlapped => Sits(call)
      BY <1>2, <1>3, <1>5, <2>5, <3>2 DEF Sits, BeforeWork, AfterWork
    <3> QED
      BY <3>1, <3>2, <3>3
  <2> QED
    BY <2>1, <2>2, <2>3, <2>4, <2>5
<1>8. PICK call \in CallRow : engineer' = [engineer EXCEPT ![e] = call]
                              /\ (~overlapped => Sits(call))
  BY <1>7
<1>9. ~overlapped => Sits(call)'
  BY <1>4, <1>8 DEF Unwritten, Sits, Counted, PendingOf, FindingsOf
<1> QED
  BY <1>2, <1>3, <1>4, <1>8, <1>9, CallGoesOn DEF Unwritten, EpisodeTyped

(* The save before the work says "verifying", so that nobody repeats it.    *)
LEMMA CheckpointStep ==
  ASSUME EpisodeInv, NEW e \in Engineers, Checkpoint(e)
  PROVE  EpisodeInv'
<1>1. engineer[e].pc = "checkpoint"
  BY DEF Checkpoint, InCall
<1>2. engineer[e] \in CallRow /\ engineer[e] # Free /\ EpisodeTyped
        /\ (~overlapped => RowKept /\ Sits(engineer[e]))
  BY <1>1, EngineerAt
<1> PICK c \in CallRow : c = engineer[e]
  BY <1>2
<1>3. PICK call : call = [c EXCEPT !.pc = "execute"]
  OBVIOUS
<1>4. /\ call \in CallRow /\ call.pc = "execute" /\ call.round = c.round /\ call.call = c.call
      /\ call.family = c.family /\ call.accepted = c.accepted
  BY <1>3 DEF CallRow
<1>5. /\ engineer' = [engineer EXCEPT ![e] = call]
      /\ UNCHANGED <<backlog, calls, work, verified, owner, overlapped, meddled>>
  BY <1>3 DEF Checkpoint, Continue
<1>6. /\ episode' \in EpisodeRow /\ episode'.state = "verifying"
      /\ episode'.iteration = c.seen + 1 /\ c.seen \in Nat /\ c.round \in Nat
  BY DEF Checkpoint, SaveEpisode, EpisodeRow, CallRow
<1>7. ASSUME ~overlapped PROVE RowKept' /\ Sits(call)'
  <2>1. /\ RowKept /\ c.round > 0 /\ c.seen = c.round - 1 /\ Cardinality(work) = c.round - 1
        /\ \A execution \in work : execution.round <= c.round - 1
        /\ c.family = owner /\ \A execution \in work : execution.call = c.call
    BY <1>1, <1>2, <1>7 DEF Sits, BeforeWork, Counted
  <2>2. episode'.iteration = c.round
    BY <1>6, <2>1
  <2>3. RowKept'
    BY <1>5, <1>6, <2>1, <2>2 DEF RowKept
  <2>4. ~call.accepted
    BY <1>1, <1>2, <1>4, <1>7 DEF Sits
  <2>5. Sits(call)'
    BY <1>4, <1>5, <1>6, <2>1, <2>2, <2>4 DEF Sits, Counted, BeforeWork, AfterWork, Ended
  <2> QED
    BY <2>3, <2>5
<1> QED
  BY <1>2, <1>4, <1>5, <1>6, <1>7, EngineerStep DEF EpisodeTyped

(* One execution for each iteration.                                        *)
LEMMA ExecuteStep ==
  ASSUME EpisodeInv, NEW e \in Engineers, Execute(e)
  PROVE  EpisodeInv'
<1>1. engineer[e].pc = "execute"
  BY DEF Execute, InCall
<1>2. engineer[e] \in CallRow /\ engineer[e] # Free /\ EpisodeTyped
        /\ (~overlapped => RowKept /\ Sits(engineer[e]))
  BY <1>1, EngineerAt
<1> PICK c \in CallRow : c = engineer[e]
  BY <1>2
<1>3. PICK call : call = [c EXCEPT !.pc = "verify"]
  OBVIOUS
<1>4. /\ call \in CallRow /\ call.pc = "verify" /\ call.round = c.round /\ call.call = c.call
      /\ call.family = c.family /\ call.accepted = c.accepted
  BY <1>3 DEF CallRow, AfterWork
<1>5. PICK new : new = [call |-> c.call, family |-> c.family, round |-> c.round]
  OBVIOUS
<1>6. new \in Executions /\ new.call = c.call /\ new.family = c.family /\ new.round = c.round
        /\ c.round \in Nat
  BY <1>5 DEF Executions, CallRow
<1>7. /\ engineer' = [engineer EXCEPT ![e] = call] /\ work' = work \cup {new}
      /\ UNCHANGED <<episode, backlog, calls, verified, owner, overlapped, meddled>>
  BY <1>3, <1>5 DEF Execute, Continue
<1>8. work' \in SUBSET Executions /\ IsFiniteSet(work')
  BY <1>2, <1>6, <1>7, FS_AddElement DEF EpisodeTyped
<1>9. ASSUME ~overlapped PROVE RowKept' /\ Sits(call)'
  <2>1. /\ RowKept /\ c.round > 0 /\ Cardinality(work) = c.round - 1
        /\ \A execution \in work : execution.round <= c.round - 1
        /\ c.family = owner /\ \A execution \in work : execution.call = c.call
        /\ episode.state = "verifying" /\ episode.iteration = c.round
    BY <1>1, <1>2, <1>9 DEF Sits, Counted
  <2>2. new \notin work
    BY <1>6, <2>1
  <2>3. Cardinality(work') = c.round
    <3>1. Cardinality(work \cup {new}) = Cardinality(work) + 1
      BY <1>2, <2>2, FS_AddElement DEF EpisodeTyped
    <3> QED
      BY <1>6, <1>7, <2>1, <3>1
  <2>4. \A execution \in work' : /\ execution.call = c.call /\ execution.family = owner
                                 /\ execution.round <= c.round
    <3>1. \A execution \in work : execution.round \in Nat
      BY <1>2 DEF EpisodeTyped, Executions
    <3> QED
      BY <1>6, <1>7, <2>1, <3>1 DEF RowKept
  <2>5. RowKept'
    BY <1>6, <1>7, <2>1, <2>3, <2>4 DEF RowKept
  <2>6. ~call.accepted
    BY <1>1, <1>2, <1>4, <1>9 DEF Sits
  <2>7. Sits(call)'
    BY <1>4, <1>7, <2>1, <2>3, <2>4, <2>6 DEF Sits, Counted, BeforeWork, AfterWork, Ended
  <2> QED
    BY <2>5, <2>7
<1> QED
  BY <1>2, <1>4, <1>7, <1>8, <1>9, EngineerStep DEF EpisodeTyped

(* The verification of this round is the last one.                          *)
LEMMA VerifyWorkStep ==
  ASSUME EpisodeInv, NEW e \in Engineers, NEW passed \in BOOLEAN, VerifyWork(e, passed)
  PROVE  EpisodeInv'
<1>1. engineer[e].pc = "verify"
  BY DEF VerifyWork, InCall
<1>2. engineer[e] \in CallRow /\ engineer[e] # Free /\ EpisodeTyped
        /\ (~overlapped => RowKept /\ Sits(engineer[e]))
  BY <1>1, EngineerAt
<1> PICK c \in CallRow : c = engineer[e]
  BY <1>2
<1>3. PICK call : call = [c EXCEPT !.pc = "record", !.passed = passed]
  OBVIOUS
<1>4. /\ call \in CallRow /\ call.pc = "record" /\ call.round = c.round /\ call.call = c.call
      /\ call.family = c.family /\ call.accepted = c.accepted /\ call.passed = passed
  BY <1>3 DEF CallRow, AfterWork
<1>5. /\ engineer' = [engineer EXCEPT ![e] = call]
      /\ verified' = IF passed THEN "passed" ELSE "failed"
      /\ UNCHANGED <<episode, backlog, calls, work, owner, overlapped, meddled>>
  BY <1>3 DEF VerifyWork, Continue
<1>6. ASSUME ~overlapped PROVE RowKept' /\ Sits(call)'
  <2>1. RowKept /\ Sits(c)
    BY <1>2, <1>6
  <2>2. episode.state = "verifying"
    BY <1>1, <2>1 DEF Sits, AfterWork
  <2>3. RowKept'
    BY <1>5, <2>1, <2>2 DEF RowKept
  <2>4. Sits(call)'
    BY <1>1, <1>4, <1>5, <2>1 DEF Sits, Counted, BeforeWork, AfterWork, Ended
  <2> QED
    BY <2>3, <2>4
<1> QED
  BY <1>2, <1>4, <1>5, <1>6, EngineerStep DEF EpisodeTyped

(* A finding that is written belongs to the family of the call.              *)
LEMMA UpsertedRow ==
  ASSUME EpisodeTyped, NEW e \in Engineers, NEW family \in Families,
         engineer[e].family = family, NEW f \in Findings,
         NEW status \in FindingStatuses, NEW severe \in BOOLEAN, Upserted(e, f, status, severe)
  PROVE  /\ backlog' \in [Findings -> FindingRow]
         /\ status = "pending" => PendingOf(family)' # {}
<1>1. PICK row : row = [backlog[f] EXCEPT !.status = status, !.severe = severe, !.family = family]
  OBVIOUS
<1>2. row \in FindingRow /\ row.status = status /\ row.family = family
  BY <1>1 DEF EpisodeTyped, FindingRow
<1>3. backlog' = [backlog EXCEPT ![f] = row]
  BY <1>1 DEF Upserted
<1>4. backlog' \in [Findings -> FindingRow] /\ backlog'[f] = row
  BY <1>2, <1>3 DEF EpisodeTyped
<1>5. status = "pending" => f \in PendingOf(family)'
  BY <1>2, <1>4 DEF PendingOf, FindingsOf, Unresolved
<1> QED
  BY <1>4, <1>5

(* A failed verification is put on the backlog, so the next plan is not     *)
(* empty.                                                                   *)
LEMMA RecordFindingStep ==
  ASSUME EpisodeInv, NEW e \in Engineers, NEW f \in Findings, RecordFinding(e, f)
  PROVE  EpisodeInv'
<1>1. engineer[e].pc = "record" /\ engineer[e].pc # "free"
  BY DEF RecordFinding, InCall
<1>2. engineer[e] \in CallRow /\ engineer[e] # Free /\ EpisodeTyped
        /\ (~overlapped => RowKept /\ Sits(engineer[e]))
  BY <1>1, EngineerAt
<1> PICK c \in CallRow : c = engineer[e]
  BY <1>2
<1>3. c.family \in Families /\ c.passed \in BOOLEAN
  BY DEF CallRow
<1>4. PICK next : next = IF c.todo # {f} THEN "record" ELSE IF c.passed THEN "review" ELSE "learn"
  OBVIOUS
<1>5. PICK call : call = [c EXCEPT !.todo = @ \ {f}, !.pc = next]
  OBVIOUS
<1>6. /\ call \in CallRow /\ call.pc = next /\ call.round = c.round /\ call.call = c.call
      /\ call.family = c.family /\ call.accepted = c.accepted /\ call.passed = c.passed
  BY <1>4, <1>5 DEF CallRow, AfterWork
<1>7. PICK status : status = IF c.passed THEN "resolved" ELSE "pending"
  OBVIOUS
<1>8. /\ engineer' = [engineer EXCEPT ![e] = call] /\ Upserted(e, f, status, TRUE)
      /\ UNCHANGED <<episode, calls, work, verified, owner, overlapped, meddled>>
  BY <1>4, <1>5, <1>7 DEF RecordFinding, Continue
<1>9. backlog' \in [Findings -> FindingRow] /\ (~c.passed => PendingOf(c.family)' # {})
  BY <1>2, <1>3, <1>7, <1>8, UpsertedRow DEF FindingStatuses
<1>10. ~overlapped => Sits(call)'
  BY <1>1, <1>2, <1>4, <1>6, <1>8, <1>9 DEF Sits, Counted, BeforeWork, AfterWork
<1> QED
  BY <1>1, <1>6, <1>8, <1>9, <1>10, CallGoesOn

(* A review comes after a verification that passed; what it finds may go on *)
(* the backlog.                                                             *)
LEMMA ReviewStep ==
  ASSUME EpisodeInv, NEW e \in Engineers,
         \/ ReviewClean(e)
         \/ \E f \in Findings, severe \in BOOLEAN, decision \in {"accept", "address", "stop"} :
              ReviewFinds(e, f, severe, decision)
  PROVE  EpisodeInv'
<1>1. engineer[e].pc = "review" /\ engineer[e].pc # "free"
  BY DEF ReviewClean, ReviewFinds, InCall
<1>2. engineer[e] \in CallRow /\ engineer[e] # Free /\ EpisodeTyped
        /\ (~overlapped => RowKept /\ Sits(engineer[e]))
  BY <1>1, EngineerAt
<1> PICK c \in CallRow : c = engineer[e]
  BY <1>2
<1>3. PICK next \in {"learn", "final"} : engineer' = [engineer EXCEPT ![e] = [c EXCEPT !.pc = next]]
  BY DEF ReviewClean, ReviewFinds, Reviewed, Continue
<1>4. PICK call : call = [c EXCEPT !.pc = next]
  OBVIOUS
<1>5. /\ call \in CallRow /\ call.pc = next /\ call.round = c.round /\ call.call = c.call
      /\ call.family = c.family /\ call.accepted = c.accepted /\ call.passed = c.passed
  BY <1>4 DEF CallRow, AfterWork
<1>6. UNCHANGED <<episode, calls, work, verified, owner, overlapped, meddled>>
  BY DEF ReviewClean, ReviewFinds, Unwritten
<1>7. backlog' \in [Findings -> FindingRow]
  <2>1. CASE ReviewClean(e)
    BY <1>2, <2>1 DEF ReviewClean, Unwritten, EpisodeTyped
  <2>2. CASE \E f \in Findings, severe \in BOOLEAN, decision \in {"accept", "address", "stop"} :
               ReviewFinds(e, f, severe, decision)
    <3>1. PICK f \in Findings, severe \in BOOLEAN : Upserted(e, f, "pending", severe)
      BY <2>2 DEF ReviewFinds
    <3>2. c.family \in Families /\ "pending" \in FindingStatuses
      BY DEF CallRow, FindingStatuses
    <3> QED
      BY <1>2, <3>1, <3>2, UpsertedRow
  <2> QED
    BY <2>1, <2>2
<1>8. ~overlapped => Sits(call)'
  BY <1>1, <1>2, <1>3, <1>5, <1>6 DEF Sits, Counted, BeforeWork, AfterWork
<1> QED
  BY <1>1, <1>3, <1>4, <1>5, <1>6, <1>7, <1>8, CallGoesOn

(* Learning ends the iteration.                                             *)
LEMMA LearnWorkStep ==
  ASSUME EpisodeInv, NEW e \in Engineers, NEW promoted \in BOOLEAN, LearnWork(e, promoted)
  PROVE  EpisodeInv'
<1>1. engineer[e].pc = "learn" /\ engineer[e].pc # "free"
  BY DEF LearnWork, InCall
<1>2. engineer[e] \in CallRow /\ engineer[e] # Free /\ EpisodeTyped
        /\ (~overlapped => RowKept /\ Sits(engineer[e]))
  BY <1>1, EngineerAt
<1> PICK c \in CallRow : c = engineer[e]
  BY <1>2
<1>3. Unwritten /\ c.round \in Nat
  BY DEF LearnWork, CallRow
<1>4. \E call \in CallRow : engineer' = [engineer EXCEPT ![e] = call] /\ (~overlapped => Sits(call))
  <2>1. CASE c.passed
    <3>1. PICK call : /\ call = [c EXCEPT !.pc = "final", !.accepted = promoted]
                      /\ engineer' = [engineer EXCEPT ![e] = call]
      BY <2>1 DEF LearnWork, Continue
    <3>2. /\ call \in CallRow /\ call.pc = "final" /\ call.family = c.family /\ call.call = c.call
      BY <3>1 DEF CallRow
    <3>3. ~overlapped => Sits(call)
      BY <1>1, <1>2, <2>1, <3>2 DEF Sits, BeforeWork, AfterWork
    <3> QED
      BY <3>1, <3>2, <3>3
  <2>2. CASE ~c.passed /\ c.round < MaxIterations
    <3>1. PICK call : /\ call = [c EXCEPT !.pc = "predict", !.round = @ + 1]
                      /\ engineer' = [engineer EXCEPT ![e] = call]
      BY <2>2 DEF LearnWork, Continue
    <3>2. /\ call \in CallRow /\ call.pc = "predict" /\ call.family = c.family
          /\ call.call = c.call /\ call.accepted = c.accepted /\ call.round = c.round + 1
          /\ call.round > 0 /\ call.round - 1 = c.round
      <4>1. PICK round \in Nat : round = c.round + 1 /\ round > 0 /\ round - 1 = c.round
        BY <1>3
      <4>2. call = [c EXCEPT !.pc = "predict", !.round = round]
        BY <3>1, <4>1
      <4> QED
        BY <4>1, <4>2 DEF CallRow, BeforeWork
    <3>3. ~overlapped => Sits(call)
      BY <1>1, <1>2, <2>2, <3>2 DEF Sits, BeforeWork, AfterWork
    <3> QED
      BY <3>1, <3>2, <3>3
  <2>3. CASE ~c.passed /\ ~(c.round < MaxIterations)
    <3>1. PICK call : /\ call = [c EXCEPT !.pc = "final"]
                      /\ engineer' = [engineer EXCEPT ![e] = call]
      BY <2>3 DEF LearnWork, Continue
    <3>2. /\ call \in CallRow /\ call.pc = "final" /\ call.family = c.family
          /\ call.call = c.call /\ call.accepted = c.accepted
      BY <3>1 DEF CallRow
    <3>3. ~overlapped => Sits(call)
      BY <1>1, <1>2, <3>2 DEF Sits, BeforeWork, AfterWork
    <3> QED
      BY <3>1, <3>2, <3>3
  <2> QED
    BY <2>1, <2>2, <2>3
<1>5. PICK call \in CallRow : engineer' = [engineer EXCEPT ![e] = call]
                              /\ (~overlapped => Sits(call))
  BY <1>4
<1>6. ~overlapped => Sits(call)'
  BY <1>3, <1>5 DEF Unwritten, Sits, Counted, PendingOf, FindingsOf
<1> QED
  BY <1>1, <1>2, <1>3, <1>5, <1>6, CallGoesOn DEF Unwritten, EpisodeTyped

(* Others change the backlog, which is counted.                             *)
LEMMA MeddleStep ==
  ASSUME EpisodeInv, NEW f \in Findings, NEW status \in {"pending", "resolved"}, Meddle(f, status)
  PROVE  EpisodeInv'
<1>1. EpisodeTyped
  BY DEF EpisodeInv
<1>2. /\ meddled' = meddled + 1 /\ backlog' = [backlog EXCEPT ![f].status = status]
      /\ UNCHANGED <<episode, engineer, calls, work, verified, owner, overlapped>>
  BY DEF Meddle
<1>3. meddled' \in Nat /\ meddled' # 0
  BY <1>1, <1>2 DEF EpisodeTyped
<1>4. backlog' \in [Findings -> FindingRow]
  BY <1>1, <1>2 DEF EpisodeTyped, FindingRow, FindingStatuses
<1>5. EpisodeTyped'
  BY <1>1, <1>2, <1>3, <1>4 DEF EpisodeTyped
<1>6. ASSUME ~overlapped PROVE OneEngineer'
  <2>1. OneEngineer
    BY <1>6 DEF EpisodeInv
  <2>2. RowKept'
    BY <1>2, <1>3, <2>1 DEF OneEngineer, RowKept
  <2>3. \A c : Sits(c) => Sits(c)'
    BY <1>2, <1>3 DEF Sits, Counted
  <2>4. \A e \in Engineers : Sits(engineer[e])'
    BY <1>2, <2>1, <2>3 DEF OneEngineer, Sits
  <2> QED
    BY <1>2, <2>1, <2>2, <2>4 DEF OneEngineer
<1> QED
  BY <1>2, <1>5, <1>6 DEF EpisodeInv

(* One step for each action of a call.                                      *)
LEMMA EpisodeInvNext == EpisodeInv /\ [EpisodeNext]_episodeVars => EpisodeInv'
<1> SUFFICES ASSUME EpisodeInv, [EpisodeNext]_episodeVars PROVE EpisodeInv'
  OBVIOUS
<1>1. CASE UNCHANGED episodeVars
  <2>1. EpisodeTyped'
    BY <1>1 DEF episodeVars, EpisodeInv, EpisodeTyped
  <2>2. OneEngineer => OneEngineer'
    BY <1>1 DEF episodeVars, OneEngineer, RowKept, Sits, Counted, PendingOf, FindingsOf
  <2> QED
    BY <1>1, <2>1, <2>2 DEF episodeVars, EpisodeInv
<1>2. CASE \E f \in Findings, status \in {"pending", "resolved"} : Meddle(f, status)
  BY <1>2, MeddleStep
<1>3. CASE \E e \in Engineers :
       \/ \E family \in Families : BeginEpisode(e, family)
       \/ Escalate(e) \/ SaveRunning(e) \/ Predict(e) \/ Plan(e) \/ LoadCheckpoint(e) \/ Checkpoint(e)
       \/ Execute(e) \/ (\E passed \in BOOLEAN : VerifyWork(e, passed))
       \/ (\E f \in Findings : RecordFinding(e, f)) \/ ReviewClean(e)
       \/ \E f \in Findings, severe \in BOOLEAN, decision \in {"accept", "address", "stop"} :
            ReviewFinds(e, f, severe, decision)
       \/ (\E promoted \in BOOLEAN : LearnWork(e, promoted))
       \/ SaveReceipt(e) \/ LoopRaises(e) \/ SaveFailed(e) \/ EngineerDies(e)
  BY <1>3, BeginEpisodeStep, LastSaves, SaveRunningStep, BeforeWorkStep, CheckpointStep,
     ExecuteStep, VerifyWorkStep, RecordFindingStep, ReviewStep, LearnWorkStep, DiesStep
<1> QED
  BY <1>1, <1>2, <1>3 DEF EpisodeNext

(* continuous_engineering_runtime.py:185, "recovery is explicitly            *)
(* fail-closed": unless two calls of run overlap, all executions of an       *)
(* episode belong to one call, for the family it was first stored for, the   *)
(* row counts them, and it completes only after a verification that passed.  *)
THEOREM Episodes == EpisodeSpec => []EpisodeSound
<1>1. EpisodeInit => EpisodeInv
  BY EpisodeInvInit
<1>2. EpisodeInv /\ [EpisodeNext]_episodeVars => EpisodeInv'
  BY EpisodeInvNext
<1>3. EpisodeInv => EpisodeSound
  BY EpisodeInvImplies
<1> QED
  BY <1>1, <1>2, <1>3, PTL DEF EpisodeSpec
-------------------------------------------------------------------------------
(* The shared task memory.  A row is a record; a dream's candidates and the  *)
(* basis of a verified row are places in the ledger.                         *)
Notes == {c.note : c \in Contents}
Said == {c.outcome : c \in Contents} \cup {"worked", "failed", "regressed"}
Row == [run : Runs, second : Nat, promotion : {"candidate", "superseded", "verified"},
        supersedes : Nat, outcome : Said, detail : [runs : Nat, note : Notes],
        evidence : SUBSET Notes, basis : SUBSET Nat, disturbed : BOOLEAN, contradicted : BOOLEAN]
Dream == [pc : {"revise"}, counted : SUBSET Nat, disturbed : BOOLEAN]

RunsOf(rows) == {ledger[i].run : i \in rows}
Merged(rows) == <<Lesson(rows), [runs |-> Cardinality(rows), note |-> ledger[Newest(rows)].detail.note],
                  UNION {ledger[i].evidence : i \in rows}>>
Grounded(rows) == /\ rows \subseteq DOMAIN ledger \ Verified
                  /\ Cardinality(RunsOf(rows)) >= MinRepeat /\ Agree(rows)

(* The invariant of the memory.  A verified row is the merger of rows that   *)
(* never become verified, by its fingerprint: recording it twice is refused. *)
(* A dream that nobody disturbed has counted every run with a candidate.     *)
MemoryTyped == ledger \in Seq(Row) /\ dreamer \in [Dreamers -> Dream \cup {Awake}]
RowsSound == \A i \in Verified, rows \in SUBSET Nat : ledger[i].basis = rows =>
  /\ Grounded(rows) /\ Fingerprint(ledger[i]) = Merged(rows)
  /\ ledger[i].contradicted => ledger[i].disturbed
Succeeded == \A i \in DOMAIN ledger : ledger[i].promotion = "superseded" =>
  \E j \in Verified : ledger[j].supersedes = i /\ i \in ledger[j].basis
OneEach == \A i, j \in Verified : ledger[i].basis = ledger[j].basis => i = j
CountsRows(c) == Grounded(c.counted) /\ (~c.disturbed => RunsOf(CandidateRows) \subseteq RunsOf(c.counted))
DreamsSound == \A d \in Dreamers, c \in Dream : dreamer[d] = c => CountsRows(c)
MemoryInv == MemoryTyped /\ RowsSound /\ Succeeded /\ OneEach /\ DreamsSound

(* Of rows in a sequence one is the newest: the last second, and of that     *)
(* second the first place.                                                   *)
IsNewest(i, rows, second) ==
  /\ i \in rows
  /\ \A j \in rows \ {i} : second[i] > second[j] \/ (second[i] = second[j] /\ i < j)

(* Among rows there is a newest one.                                        *)
LEMMA SomeNewest ==
  ASSUME NEW n \in Nat, NEW second \in [1..n -> Nat], NEW rows \in SUBSET (1..n), rows # {}
  PROVE  \E i \in rows : IsNewest(i, rows, second)
<1> DEFINE Upto(k) == {i \in rows : i <= k}
           Has(T) == \E i \in rows : IsNewest(i, T, second)
           Settled == {k \in 0..n : Upto(k) = {} \/ Has(Upto(k))}
<1>1. \A i \in rows : i \in 1..n /\ i \in Nat /\ second[i] \in Nat
  OBVIOUS
<1>2. 0 \in Settled
  <2>1. \A i \in rows : ~(i <= 0)
    BY <1>1
  <2>2. Upto(0) = {}
    BY <2>1
  <2> HIDE DEF Upto, Has
  <2> QED
    BY <2>2
<1>3. ASSUME NEW k \in 1..n, k - 1 \in Settled
      PROVE  k \in Settled
  <2>1. Upto(k - 1) = {} \/ Has(Upto(k - 1))
    BY <1>3
  <2>2. CASE k \notin rows
    <3>1. \A i \in rows : i <= k <=> i <= k - 1
      BY <1>1, <2>2
    <3>2. Upto(k) = Upto(k - 1)
      BY <3>1
    <3> HIDE DEF Upto, Has
    <3> QED
      BY <2>1, <3>2
  <2>3. CASE k \in rows
    <3> DEFINE S == Upto(k - 1)
    <3>1. Upto(k) = S \cup {k}
      <4>1. \A i \in rows : i <= k <=> i <= k - 1 \/ i = k
        BY <1>1
      <4> QED
        BY <2>3, <4>1
    <3>2. \A j \in Upto(k - 1) : j < k /\ j \in rows
      BY <1>1
    <3>3. CASE Upto(k - 1) = {}
      <4>1. IsNewest(k, Upto(k), second)
        BY <3>1, <3>3 DEF IsNewest
      <4>2. Has(Upto(k))
        BY <2>3, <4>1
      <4> HIDE DEF Upto, Has
      <4> QED
        BY <4>2
    <3>4. CASE Has(Upto(k - 1))
      <4>1. PICK m \in rows : IsNewest(m, Upto(k - 1), second)
        BY <3>4
      <4> HIDE DEF Upto
      <4>2. m \in Upto(k - 1) /\ m < k
        BY <3>2, <4>1 DEF IsNewest
      <4>3. CASE second[m] >= second[k]
        <5>1. IsNewest(m, Upto(k), second)
          BY <1>1, <2>3, <3>1, <4>1, <4>2, <4>3 DEF IsNewest
        <5> QED
          BY <5>1
      <4>4. CASE second[m] < second[k]
        <5>1. ASSUME NEW j \in Upto(k) \ {k} PROVE second[k] > second[j]
          <6>1. j \in Upto(k - 1) /\ j \in rows
            BY <3>1, <3>2
          <6>2. j = m \/ second[m] >= second[j]
            BY <1>1, <4>1, <6>1 DEF IsNewest
          <6> QED
            BY <1>1, <2>3, <4>4, <6>1, <6>2
        <5>2. IsNewest(k, Upto(k), second)
          BY <3>1, <5>1 DEF IsNewest
        <5> QED
          BY <2>3, <5>2
      <4> QED
        BY <1>1, <2>3, <4>3, <4>4
    <3> QED
      BY <2>1, <3>3, <3>4
  <2> QED
    BY <2>2, <2>3
<1> HIDE DEF Settled
<1>4. \A k \in 1..n : k - 1 \in Settled => k \in Settled
  BY <1>3
<1>5. 0..n \subseteq Settled
  BY <1>2, <1>4, IntervalInduction, Zenon
<1>6. n \in Settled
  BY <1>5
<1>7. Upto(n) = rows
  <2>1. \A i \in rows : i <= n
    BY <1>1
  <2> QED
    BY <2>1
<1> QED
  BY <1>6, <1>7 DEF Settled

Seconds(entries) == [i \in 1..Len(entries) |-> entries[i].second]
NewestOf(entries, rows) == CHOOSE i \in rows : \A j \in rows \ {i} :
  \/ entries[i].second > entries[j].second
  \/ entries[i].second = entries[j].second /\ i < j

(* The newest row is unique.                                                *)
LEMMA NewestIs ==
  ASSUME NEW entries \in Seq(Row), NEW rows \in SUBSET DOMAIN entries, rows # {}
  PROVE  /\ IsNewest(NewestOf(entries, rows), rows, Seconds(entries))
         /\ \A i : IsNewest(i, rows, Seconds(entries)) => i = NewestOf(entries, rows)
<1>1. Len(entries) \in Nat /\ DOMAIN entries = 1..Len(entries) /\ \A i \in 1..Len(entries) : entries[i] \in Row
  BY LenProperties
<1>2. Seconds(entries) \in [1..Len(entries) -> Nat]
  BY <1>1 DEF Seconds, Row
<1>3. \A i \in DOMAIN entries : Seconds(entries)[i] = entries[i].second /\ entries[i].second \in Nat
  BY <1>1 DEF Seconds, Row
<1>4. PICK k \in rows : IsNewest(k, rows, Seconds(entries))
  BY <1>1, <1>2, SomeNewest
<1>5. \A i \in rows : IsNewest(i, rows, Seconds(entries)) <=> \A j \in rows \ {i} :
        \/ entries[i].second > entries[j].second
        \/ entries[i].second = entries[j].second /\ i < j
  BY <1>3 DEF IsNewest
<1>6. IsNewest(NewestOf(entries, rows), rows, Seconds(entries))
  BY <1>4, <1>5 DEF NewestOf
<1>7. ASSUME NEW i, IsNewest(i, rows, Seconds(entries)), i # NewestOf(entries, rows) PROVE FALSE
  <2> DEFINE m == NewestOf(entries, rows)
  <2>1. m \in rows /\ i \in rows
    BY <1>6, <1>7 DEF IsNewest
  <2> HIDE DEF m
  <2>2. Seconds(entries)[i] \in Nat /\ Seconds(entries)[m] \in Nat /\ i \in Nat /\ m \in Nat
    BY <1>1, <1>2, <2>1
  <2> QED
    BY <1>6, <1>7, <2>1, <2>2 DEF IsNewest, m
<1> QED
  BY <1>6, <1>7

(* Rows are added, and none is changed but for what is superseded, which is  *)
(* never a verified one.                                                     *)
Place == Len(ledger) + 1
Unchanged(i) ==
  /\ ledger'[i].run = ledger[i].run /\ ledger'[i].second = ledger[i].second
  /\ ledger'[i].outcome = ledger[i].outcome /\ ledger'[i].detail = ledger[i].detail
  /\ ledger'[i].evidence = ledger[i].evidence /\ ledger'[i].basis = ledger[i].basis
  /\ ledger'[i].supersedes = ledger[i].supersedes
  /\ ledger'[i].disturbed = ledger[i].disturbed /\ ledger'[i].contradicted = ledger[i].contradicted
Grown ==
  /\ ledger' \in Seq(Row) /\ DOMAIN ledger \subseteq DOMAIN ledger'
  /\ \A i \in DOMAIN ledger : Unchanged(i) /\ (i \in Verified' <=> i \in Verified)
Appended(row) ==
  /\ Place \notin DOMAIN ledger /\ DOMAIN ledger' = DOMAIN ledger \cup {Place}
  /\ ledger'[Place] = row
  /\ \A i \in DOMAIN ledger :
       /\ Fingerprint(ledger[i]) # Fingerprint(row)
       /\ ledger'[i].promotion = IF i = row.supersedes THEN "superseded" ELSE ledger[i].promotion

(* Recording appends a row or, when its fingerprint is known, nothing.      *)
LEMMA RecordedRow ==
  ASSUME ledger \in Seq(Row), NEW row \in Row, RecordRow(row),
         row.supersedes \in DOMAIN ledger => row.supersedes \notin Verified
  PROVE  Grown /\ (ledger' = ledger \/ Appended(row))
<1>1. Len(ledger) \in Nat /\ DOMAIN ledger = 1..Len(ledger) /\ \A i \in 1..Len(ledger) : ledger[i] \in Row
  BY LenProperties
<1>2. CASE ledger' = ledger
  BY <1>1, <1>2 DEF Grown, Unchanged, Verified
<1>3. CASE ~\E i \in DOMAIN ledger : Fingerprint(ledger[i]) = Fingerprint(row)
  <2> DEFINE After(i) == IF i > Len(ledger) THEN row
                         ELSE IF i = row.supersedes THEN [ledger[i] EXCEPT !.promotion = "superseded"]
                         ELSE ledger[i]
  <2>1. PICK n \in Nat : n = Place
    BY <1>1 DEF Place
  <2>2. ledger' = [i \in 1..n |-> After(i)]
    BY <1>3, <2>1 DEF RecordRow, Place
  <2>3. \A i \in 1..Len(ledger) : i <= Len(ledger) /\ i \in 1..n /\ i # n
    BY <1>1, <2>1 DEF Place
  <2>4. \A i \in 1..n : i = n \/ i \in 1..Len(ledger)
    BY <1>1, <2>1 DEF Place
  <2>5. n \in 1..n /\ n > Len(ledger)
    BY <1>1, <2>1 DEF Place
  <2>6. \A i \in 1..n : After(i) \in Row
    <3>1. \A i \in 1..Len(ledger) : [ledger[i] EXCEPT !.promotion = "superseded"] \in Row
      BY <1>1 DEF Row
    <3> QED
      BY <1>1, <2>3, <2>4, <2>5, <3>1
  <2>7. \A i \in 1..Len(ledger) : /\ i # row.supersedes => After(i) = ledger[i]
                                  /\ i = row.supersedes => After(i) = [ledger[i] EXCEPT !.promotion = "superseded"]
    BY <1>1, <2>3
  <2>8. After(n) = row
    BY <2>5
  <2> HIDE DEF After
  <2>9. ledger' \in [1..n -> Row] /\ DOMAIN ledger' = 1..n /\ \A i \in 1..n : ledger'[i] = After(i)
    BY <2>2, <2>6
  <2>10. ledger' \in Seq(Row)
    BY <2>9, SeqDef
  <2>11. \A i \in DOMAIN ledger :
           /\ Unchanged(i)
           /\ ledger'[i].promotion = IF i = row.supersedes THEN "superseded" ELSE ledger[i].promotion
    <3> SUFFICES ASSUME NEW i \in 1..Len(ledger)
                 PROVE  /\ Unchanged(i)
                        /\ ledger'[i].promotion = IF i = row.supersedes THEN "superseded" ELSE ledger[i].promotion
      BY <1>1
    <3>1. ledger[i] \in Row /\ ledger'[i] = After(i)
      BY <1>1, <2>3, <2>9
    <3>2. CASE i = row.supersedes
      <4>1. ledger'[i] = [ledger[i] EXCEPT !.promotion = "superseded"]
        BY <2>7, <3>1, <3>2
      <4> QED
        BY <3>1, <3>2, <4>1 DEF Unchanged, Row
    <3>3. CASE i # row.supersedes
      <4>1. ledger'[i] = ledger[i]
        BY <2>7, <3>1, <3>3
      <4> QED
        BY <3>3, <4>1 DEF Unchanged
    <3> QED
      BY <3>2, <3>3
  <2>12. \A i \in DOMAIN ledger : i \in Verified' <=> i \in Verified
    BY <1>1, <2>3, <2>9, <2>11 DEF Verified
  <2>13. Grown
    BY <1>1, <2>3, <2>9, <2>10, <2>11, <2>12 DEF Grown
  <2>14. DOMAIN ledger' = DOMAIN ledger \cup {Place} /\ Place \notin DOMAIN ledger
    BY <1>1, <2>1, <2>3, <2>4, <2>5, <2>9
  <2>15. Appended(row)
    BY <1>3, <2>1, <2>5, <2>8, <2>9, <2>11, <2>14 DEF Appended
  <2> QED
    BY <2>13, <2>15
<1> QED
  BY <1>2, <1>3 DEF RecordRow

(* Rows that are there are the same rows when the ledger has grown.          *)
LEMMA GrownKeeps ==
  ASSUME ledger \in Seq(Row), Grown, NEW rows \in SUBSET DOMAIN ledger
  PROVE  /\ RunsOf(rows)' = RunsOf(rows) /\ Agree(rows)' = Agree(rows)
         /\ Grounded(rows) => Grounded(rows)'
         /\ rows # {} => Merged(rows)' = Merged(rows) /\ Newest(rows)' = Newest(rows)
<1>1. ledger' \in Seq(Row) /\ rows \in SUBSET DOMAIN ledger' /\ \A i \in rows : Unchanged(i)
  BY DEF Grown
<1>2. RunsOf(rows)' = RunsOf(rows)
  BY <1>1 DEF RunsOf, Unchanged
<1>3. Outcomes(rows)' = Outcomes(rows)
  BY <1>1 DEF Outcomes, Unchanged
<1>4. Agree(rows)' = Agree(rows) /\ Lesson(rows)' = Lesson(rows)
  BY <1>3 DEF Agree, Lesson
<1>5. rows \subseteq DOMAIN ledger \ Verified => rows \subseteq DOMAIN ledger' \ Verified'
  BY <1>1 DEF Grown
<1>6. Grounded(rows) => Grounded(rows)'
  BY <1>2, <1>4, <1>5 DEF Grounded
<1>7. ASSUME rows # {} PROVE Merged(rows)' = Merged(rows) /\ Newest(rows)' = Newest(rows)
  <2>1. PICK i : i = Newest(rows)
    OBVIOUS
  <2>2. IsNewest(i, rows, Seconds(ledger))
    BY <1>7, <2>1, NewestIs DEF Newest, NewestOf
  <2>3. \A j \in rows : Seconds(ledger')[j] = Seconds(ledger)[j]
    BY <1>1, LenProperties DEF Seconds, Unchanged
  <2>4. IsNewest(i, rows, Seconds(ledger'))
    BY <2>2, <2>3 DEF IsNewest
  <2>5. \A j : IsNewest(j, rows, Seconds(ledger')) => j = Newest(rows)'
    BY <1>1, <1>7, NewestIs DEF Newest, NewestOf
  <2>6. Newest(rows)' = i /\ i \in rows
    BY <2>2, <2>4, <2>5 DEF IsNewest
  <2>7. UNION {ledger'[j].evidence : j \in rows} = UNION {ledger[j].evidence : j \in rows}
    BY <1>1 DEF Unchanged
  <2>8. ledger'[i].detail = ledger[i].detail
    BY <1>1, <2>6 DEF Unchanged
  <2> QED
    BY <1>4, <2>1, <2>6, <2>7, <2>8 DEF Merged
<1> QED
  BY <1>2, <1>4, <1>6, <1>7

(* A pattern rests on some row.                                             *)
LEMMA GroundedSome == ASSUME NEW rows, Grounded(rows) PROVE rows # {}
<1>1. RunsOf({}) = {} /\ Cardinality({}) = 0
  BY FS_EmptySet DEF RunsOf
<1> QED
  BY <1>1, MemoryAssumption DEF Grounded

(* Every run counts once: there are no more rows than runs.                  *)
LEMMA IndependentRuns ==
  ASSUME ledger \in Seq(Row), NEW rows \in SUBSET DOMAIN ledger
  PROVE  /\ Independent(rows) \subseteq rows /\ RunsOf(Independent(rows)) = RunsOf(rows)
         /\ Cardinality(Independent(rows)) \in Nat /\ Cardinality(RunsOf(rows)) \in Nat
         /\ Cardinality(Independent(rows)) <= Cardinality(RunsOf(rows))
<1> DEFINE by(run) == {i \in rows : ledger[i].run = run}
           first == [run \in RunsOf(rows) |-> Newest(by(run))]
           run == [i \in rows |-> ledger[i].run]
<1>1. \A r \in RunsOf(rows) : Newest(by(r)) \in by(r)
  <2> SUFFICES ASSUME NEW r \in RunsOf(rows) PROVE Newest(by(r)) \in by(r)
    OBVIOUS
  <2>1. by(r) \in SUBSET DOMAIN ledger /\ by(r) # {}
    BY DEF RunsOf
  <2> HIDE DEF by
  <2> QED
    BY <2>1, NewestIs DEF Newest, NewestOf, IsNewest
<1>2. Independent(rows) = {Newest(by(r)) : r \in RunsOf(rows)}
  BY DEF Independent, RunsOf
<1>3. Independent(rows) \subseteq rows
  BY <1>1, <1>2
<1>4. RunsOf(Independent(rows)) = RunsOf(rows)
  <2>1. \A r \in RunsOf(rows) : Newest(by(r)) \in Independent(rows) /\ ledger[Newest(by(r))].run = r
    BY <1>1, <1>2
  <2>2. RunsOf(rows) \subseteq RunsOf(Independent(rows))
    BY <2>1 DEF RunsOf
  <2>3. RunsOf(Independent(rows)) \subseteq RunsOf(rows)
    BY <1>3 DEF RunsOf
  <2> QED
    BY <2>2, <2>3
<1>5. IsFiniteSet(rows)
  <2>1. Len(ledger) \in Nat /\ rows \in SUBSET (1..Len(ledger))
    BY LenProperties
  <2>2. IsFiniteSet(1..Len(ledger))
    BY <2>1, FS_Interval
  <2> QED
    BY <2>1, <2>2, FS_Subset
<1>6. IsFiniteSet(RunsOf(rows)) /\ Cardinality(RunsOf(rows)) \in Nat
  <2>1. run \in Surjection(rows, RunsOf(rows))
    BY DEF Surjection, RunsOf
  <2> QED
    BY <1>5, <2>1, FS_Surjection, FS_CardinalityType
<1>7. /\ IsFiniteSet(Independent(rows)) /\ Cardinality(Independent(rows)) \in Nat
      /\ Cardinality(Independent(rows)) <= Cardinality(RunsOf(rows))
  <2>1. first \in Surjection(RunsOf(rows), Independent(rows))
    BY <1>2 DEF Surjection
  <2> QED
    BY <1>6, <2>1, FS_Surjection, FS_CardinalityType
<1> QED
  BY <1>3, <1>4, <1>6, <1>7

(* An empty ledger.                                                         *)
LEMMA MemoryInvInit == MemoryInit => MemoryInv
<1> SUFFICES ASSUME MemoryInit PROVE MemoryInv
  OBVIOUS
<1>1. ledger = <<>> /\ DOMAIN ledger = {} /\ ledger \in Seq(Row)
  BY DEF MemoryInit
<1>2. \A d \in Dreamers : dreamer[d] = Awake
  BY DEF MemoryInit
<1>3. \A c \in Dream : c # Awake
  BY DEF Dream, Awake
<1> QED
  BY <1>1, <1>2, <1>3 DEF MemoryInit, MemoryInv, MemoryTyped, RowsSound, Succeeded, OneEach, DreamsSound, Verified

(* The invariant of the memory carries what the run checks of it.           *)
LEMMA MemoryInvImplies == MemoryInv => MemorySound
<1> SUFFICES ASSUME MemoryInv PROVE MemorySound
  OBVIOUS
<1>1. \A i \in Verified : ledger[i] \in Row
  BY LenProperties DEF MemoryInv, MemoryTyped, Verified
<1>2. ASSUME NEW i \in Verified
      PROVE  /\ Cardinality({ledger[j].run : j \in ledger[i].basis}) >= MinRepeat /\ Agree(ledger[i].basis)
             /\ ledger[i].contradicted => ledger[i].disturbed
  BY <1>1, <1>2 DEF MemoryInv, RowsSound, Row, Grounded, RunsOf
<1> QED
  BY <1>2 DEF MemorySound, MemoryInv, Succeeded, OneEach

(* What holds of the rows when the ledger has grown, but for the new one.    *)
LEMMA GrownSound ==
  ASSUME MemoryInv, Grown
  PROVE  /\ \A i \in Verified, rows \in SUBSET Nat : ledger'[i].basis = rows =>
              /\ Grounded(rows)' /\ Fingerprint(ledger'[i]) = Merged(rows)'
              /\ ledger'[i].contradicted => ledger'[i].disturbed
         /\ \A i, j \in Verified : ledger'[i].basis = ledger'[j].basis => i = j
         /\ \A i \in DOMAIN ledger : ledger[i].promotion = "superseded" =>
              \E j \in Verified' : ledger'[j].supersedes = i /\ i \in ledger'[j].basis
<1>1. \A i \in Verified : i \in DOMAIN ledger /\ Unchanged(i) /\ i \in Verified'
  BY DEF Grown, Verified
<1>2. ASSUME NEW i \in Verified, NEW rows \in SUBSET Nat, ledger'[i].basis = rows
      PROVE  /\ Grounded(rows)' /\ Fingerprint(ledger'[i]) = Merged(rows)'
             /\ ledger'[i].contradicted => ledger'[i].disturbed
  <2>1. /\ Grounded(rows) /\ Fingerprint(ledger[i]) = Merged(rows)
        /\ ledger[i].contradicted => ledger[i].disturbed
    BY <1>1, <1>2 DEF MemoryInv, RowsSound, Unchanged
  <2>2. rows \subseteq DOMAIN ledger /\ rows # {}
    BY <2>1, GroundedSome DEF Grounded
  <2>3. Grounded(rows)' /\ Merged(rows)' = Merged(rows)
    BY <2>1, <2>2, GrownKeeps DEF MemoryInv, MemoryTyped
  <2> QED
    BY <1>1, <2>1, <2>3 DEF Fingerprint, Unchanged
<1>3. \A i, j \in Verified : ledger'[i].basis = ledger'[j].basis => i = j
  BY <1>1 DEF Unchanged, MemoryInv, OneEach
<1>4. \A i \in DOMAIN ledger : ledger[i].promotion = "superseded" =>
        \E j \in Verified' : ledger'[j].supersedes = i /\ i \in ledger'[j].basis
  BY <1>1 DEF Unchanged, MemoryInv, Succeeded
<1> QED
  BY <1>2, <1>3, <1>4

Rows == RowsSound /\ Succeeded /\ OneEach

(* As long as the ledger does not change, what is said of its rows holds.   *)
LEMMA SameRows == ASSUME MemoryInv, ledger' = ledger PROVE Grown /\ Rows'
<1>1. Grown
  BY DEF MemoryInv, MemoryTyped, Grown, Unchanged, Verified
<1>2. Verified' = Verified
  BY DEF Verified
<1>3. RowsSound'
  BY <1>1, <1>2, GrownSound DEF RowsSound
<1>4. OneEach'
  BY <1>1, <1>2, GrownSound DEF OneEach
<1>5. Succeeded'
  BY <1>1, <1>2, GrownSound DEF Succeeded
<1> QED
  BY <1>1, <1>3, <1>4, <1>5 DEF Rows

(* A dream that had counted its rows before has counted them now.            *)
LEMMA DreamsKept ==
  ASSUME ledger \in Seq(Row), Grown, CandidateRows' \subseteq CandidateRows,
         NEW c \in Dream, CountsRows(c)
  PROVE  CountsRows(c)'
<1>1. PICK rows : rows = c.counted
  OBVIOUS
<1>2. rows \subseteq DOMAIN ledger /\ Grounded(rows)
  BY <1>1 DEF CountsRows, Grounded
<1>3. Grounded(rows)' /\ RunsOf(rows)' = RunsOf(rows)
  BY <1>2, GrownKeeps
<1>4. PICK candidates : candidates = CandidateRows'
  OBVIOUS
<1>5. candidates \subseteq DOMAIN ledger
  BY <1>4 DEF CandidateRows
<1>6. RunsOf(candidates)' = RunsOf(candidates)
  BY <1>5, GrownKeeps
<1>7. RunsOf(candidates) \subseteq RunsOf(CandidateRows)
  BY <1>4 DEF RunsOf
<1>8. RunsOf(CandidateRows)' = RunsOf(candidates)'
  BY <1>4 DEF RunsOf
<1> QED
  BY <1>1, <1>2, <1>3, <1>6, <1>7, <1>8 DEF CountsRows

(* The clock of a record is a number.                                       *)
LEMMA NowTyped == ASSUME ledger \in Seq(Row), NEW later \in BOOLEAN PROVE Now(later) \in Nat
<1>1. Len(ledger) \in Nat /\ ledger \in [1..Len(ledger) -> Row]
  BY LenProperties
<1>2. ASSUME ledger # <<>> PROVE ledger[Len(ledger)].second \in Nat
  <2>1. Len(ledger) \in 1..Len(ledger)
    BY <1>1, <1>2
  <2> QED
    BY <1>1, <2>1 DEF Row
<1> QED
  BY <1>2 DEF Now

(* A run records what it saw; dreams under way are disturbed.               *)
LEMMA ObserveStep ==
  ASSUME MemoryInv, NEW run \in Runs, NEW content \in Contents, NEW later \in BOOLEAN,
         Observe(run, content, later)
  PROVE  MemoryInv'
<1>1. Now(later) \in Nat
  BY NowTyped DEF MemoryInv, MemoryTyped
<1>2. PICK row \in Row : row = RowOf(run, Now(later), content)
  BY <1>1 DEF RowOf, Row, Notes, Said
<1>3. row.promotion = "candidate" /\ row.supersedes = 0 /\ RecordRow(row)
  BY <1>2 DEF Observe, RowOf
<1>4. 0 \notin DOMAIN ledger
  BY LenProperties DEF MemoryInv, MemoryTyped
<1>5. Grown /\ (ledger' = ledger \/ Appended(row))
  BY <1>3, <1>4, RecordedRow DEF MemoryInv, MemoryTyped
<1>6. Rows'
  <2>1. CASE Appended(row)
    <3>1. Verified' = Verified
      BY <1>3, <1>5, <2>1 DEF Appended, Grown, Verified
    <3>2. RowsSound'
      BY <1>5, <3>1, GrownSound DEF RowsSound
    <3>3. OneEach'
      BY <1>5, <3>1, GrownSound DEF OneEach
    <3>4. \A i \in DOMAIN ledger' : ledger'[i].promotion = "superseded" =>
            i \in DOMAIN ledger /\ ledger[i].promotion = "superseded"
      BY <1>3, <1>4, <2>1 DEF Appended
    <3>5. Succeeded'
      BY <1>5, <3>4, GrownSound DEF Succeeded
    <3> QED
      BY <3>2, <3>3, <3>5 DEF Rows
  <2> QED
    BY <1>5, <2>1, SameRows
<1>7. \A d \in Dreamers : \/ dreamer[d] = Awake /\ dreamer'[d] = Awake
                          \/ \E c \in Dream : dreamer[d] = c /\ dreamer'[d] = [c EXCEPT !.disturbed = TRUE]
  BY DEF Observe, MemoryInv, MemoryTyped
<1>8. dreamer' \in [Dreamers -> Dream \cup {Awake}]
  BY <1>7 DEF Observe, Dream
<1>9. DreamsSound'
  <2> SUFFICES ASSUME NEW d \in Dreamers, NEW c \in Dream, dreamer'[d] = c
               PROVE  Grounded(c.counted)' /\ c.disturbed
    BY DEF DreamsSound, CountsRows
  <2>1. c # Awake
    BY DEF Dream, Awake
  <2>2. PICK b \in Dream : dreamer[d] = b /\ c = [b EXCEPT !.disturbed = TRUE]
    BY <1>7, <2>1
  <2>3. c.counted = b.counted /\ c.disturbed
    BY <2>2 DEF Dream
  <2>4. Grounded(b.counted)
    BY <2>2 DEF MemoryInv, DreamsSound, CountsRows
  <2>5. PICK rows : rows = b.counted
    OBVIOUS
  <2>6. rows \subseteq DOMAIN ledger
    BY <2>4, <2>5 DEF Grounded
  <2>7. Grounded(rows)'
    BY <1>5, <2>4, <2>5, <2>6, GrownKeeps DEF MemoryInv, MemoryTyped
  <2> QED
    BY <2>3, <2>5, <2>7
<1> QED
  BY <1>5, <1>6, <1>8, <1>9 DEF MemoryInv, MemoryTyped, Rows, Grown

(* A dream counts the candidates there are and decides.                     *)
LEMMA ReadCandidatesStep ==
  ASSUME MemoryInv, NEW d \in Dreamers, ReadCandidates(d) PROVE MemoryInv'
<1>0. Grown /\ CandidateRows' = CandidateRows
  BY SameRows DEF ReadCandidates, CandidateRows
<1>1. ledger' = ledger /\ Rows'
  BY SameRows DEF ReadCandidates
<1>2. CandidateRows \in SUBSET DOMAIN ledger /\ CandidateRows \subseteq DOMAIN ledger \ Verified
  BY DEF CandidateRows, Verified
<1>3. PICK counted : counted = Independent(CandidateRows)
  OBVIOUS
<1>4. PICK c : c = [pc |-> "revise", counted |-> counted, disturbed |-> FALSE]
  OBVIOUS
<1>5. dreamer' = [dreamer EXCEPT ![d] = c] /\ Cardinality(counted) >= MinRepeat /\ Agree(counted)
  BY <1>3, <1>4 DEF ReadCandidates
<1>6. /\ counted \subseteq CandidateRows /\ RunsOf(counted) = RunsOf(CandidateRows)
      /\ Cardinality(RunsOf(counted)) >= MinRepeat
  BY <1>2, <1>3, <1>5, IndependentRuns, MemoryAssumption DEF MemoryInv, MemoryTyped
<1>7. CountsRows(c)
  BY <1>2, <1>4, <1>5, <1>6 DEF Grounded, CountsRows
<1>8. c \in Dream
  BY <1>2, <1>4, <1>6, LenProperties DEF Dream, MemoryInv, MemoryTyped
<1>9. MemoryTyped'
  BY <1>1, <1>5, <1>8 DEF MemoryInv, MemoryTyped
<1>10. DreamsSound'
  <2> SUFFICES ASSUME NEW e \in Dreamers, NEW b \in Dream, dreamer'[e] = b
               PROVE  CountsRows(b)
    BY <1>0, DreamsKept DEF DreamsSound, MemoryInv, MemoryTyped
  <2>1. CASE e = d
    BY <1>5, <1>7, <2>1 DEF MemoryInv, MemoryTyped
  <2>2. CASE e # d
    BY <1>5, <2>2 DEF MemoryInv, MemoryTyped, DreamsSound
  <2> QED
    BY <2>1, <2>2
<1> QED
  BY <1>1, <1>9, <1>10 DEF MemoryInv, Rows

(* A dream that dies has written nothing.                                   *)
LEMMA DreamerDiesStep ==
  ASSUME MemoryInv, NEW d \in Dreamers, DreamerDies(d) PROVE MemoryInv'
<1>0. Grown /\ CandidateRows' = CandidateRows
  BY SameRows DEF DreamerDies, CandidateRows
<1>1. ledger' = ledger /\ Rows' /\ dreamer' = [dreamer EXCEPT ![d] = Awake]
  BY SameRows DEF DreamerDies
<1>2. MemoryTyped'
  BY <1>1 DEF MemoryInv, MemoryTyped
<1>3. DreamsSound'
  <2> SUFFICES ASSUME NEW e \in Dreamers, NEW b \in Dream, dreamer'[e] = b
               PROVE  CountsRows(b)
    BY <1>0, DreamsKept DEF DreamsSound, MemoryInv, MemoryTyped
  <2>1. b # Awake
    BY DEF Dream, Awake
  <2>2. dreamer[e] = b
    BY <1>1, <2>1 DEF MemoryInv, MemoryTyped
  <2> QED
    BY <2>2 DEF MemoryInv, DreamsSound
<1> QED
  BY <1>1, <1>2, <1>3 DEF MemoryInv, Rows

(* A dream writes what it decided on, to a ledger that may have grown.      *)
LEMMA ReviseStep ==
  ASSUME MemoryInv, NEW d \in Dreamers, NEW later \in BOOLEAN, Revise(d, later)
  PROVE  MemoryInv'
<1> USE DEF MemoryInv, MemoryTyped
<1>1. PICK c \in Dream : dreamer[d] = c
  BY DEF Revise, Awake
<1>2. PICK counted : counted = c.counted
  OBVIOUS
<1>3. PICK old : old = Newest(counted)
  OBVIOUS
<1>4. CountsRows(c) /\ Grounded(counted)
  BY <1>1, <1>2 DEF DreamsSound, CountsRows
<1>5. counted # {} /\ counted \subseteq DOMAIN ledger \ Verified
  BY <1>4, GroundedSome DEF Grounded
<1>6. old \in counted
  BY <1>3, <1>5, NewestIs DEF Newest, NewestOf, IsNewest
<1>7. /\ Len(ledger) \in Nat /\ DOMAIN ledger = 1..Len(ledger)
      /\ \A i \in DOMAIN ledger : ledger[i] \in Row
  BY LenProperties
<1>8. Cardinality(counted) \in Nat /\ counted \in SUBSET Nat
  <2>1. counted \in SUBSET (1..Len(ledger)) /\ IsFiniteSet(1..Len(ledger))
    BY <1>5, <1>7, FS_Interval
  <2>2. IsFiniteSet(counted)
    BY <2>1, FS_Subset
  <2> QED
    BY <2>1, <2>2, FS_CardinalityType
<1>9. PICK second \in Nat : second = Now(later)
  BY NowTyped
<1>10. PICK outcome \in Said : outcome = Lesson(counted)
  BY DEF Lesson, Said
<1>11. PICK detail \in [runs : Nat, note : Notes] :
         detail = [runs |-> Cardinality(counted), note |-> ledger[old].detail.note]
  BY <1>5, <1>6, <1>7, <1>8 DEF Row
<1>12. PICK evidence \in SUBSET Notes : evidence = UNION {ledger[i].evidence : i \in counted}
  <2>1. \A i \in counted : ledger[i].evidence \in SUBSET Notes
    BY <1>5, <1>7 DEF Row
  <2>2. UNION {ledger[i].evidence : i \in counted} \in SUBSET Notes
    BY <2>1
  <2> QED
    BY <2>2
<1>13. PICK contradicted \in BOOLEAN : contradicted = Contradicted(counted)
  BY DEF Contradicted
<1>14. PICK base \in Row : base = ledger[old]
  BY <1>5, <1>6, <1>7
<1>15. PICK row : row = [base EXCEPT !.promotion = "verified", !.second = second,
          !.outcome = outcome, !.supersedes = old, !.detail = detail, !.evidence = evidence,
          !.basis = counted, !.disturbed = c.disturbed, !.contradicted = contradicted]
  OBVIOUS
<1>16. RecordRow(row)
  BY <1>1, <1>2, <1>3, <1>9, <1>10, <1>11, <1>12, <1>13, <1>14, <1>15 DEF Revise
<1>17. old \in Nat
  BY <1>5, <1>6, <1>7
<1>18. /\ row \in Row /\ row.promotion = "verified" /\ row.outcome = outcome /\ row.supersedes = old
       /\ row.detail = detail /\ row.evidence = evidence /\ row.basis = counted
       /\ row.disturbed = c.disturbed /\ row.contradicted = contradicted
  BY <1>8, <1>15, <1>17 DEF Row, Dream
<1>19. Grown /\ (ledger' = ledger \/ Appended(row))
  BY <1>5, <1>6, <1>16, <1>18, RecordedRow
<1>20. Fingerprint(row) = Merged(counted)
  BY <1>3, <1>10, <1>11, <1>12, <1>18 DEF Fingerprint, Merged
<1>21. CandidateRows' \subseteq CandidateRows
  BY <1>18, <1>19 DEF CandidateRows, Appended
<1>22. dreamer' = [dreamer EXCEPT ![d] = Awake]
  BY DEF Revise
<1>23. DreamsSound'
  <2> SUFFICES ASSUME NEW e \in Dreamers, NEW b \in Dream, dreamer'[e] = b
               PROVE  CountsRows(b)
    BY <1>19, <1>21, DreamsKept DEF DreamsSound
  <2>1. b # Awake
    BY DEF Dream, Awake
  <2>2. dreamer[e] = b
    BY <1>22, <2>1
  <2> QED
    BY <2>2 DEF DreamsSound
<1>24. ASSUME Appended(row) PROVE Rows'
  <2>1. /\ \A i \in Verified' : i = Place \/ i \in Verified
        /\ Place \in Verified' /\ ledger'[Place] = row
    BY <1>18, <1>19, <1>24 DEF Appended, Grown, Verified
  <2>2. Grounded(counted)' /\ Fingerprint(row) = Merged(counted)'
    BY <1>4, <1>5, <1>19, <1>20, GrownKeeps
  <2>3. contradicted => c.disturbed
    BY <1>2, <1>4, <1>13 DEF Contradicted, CountsRows, RunsOf
  <2>4. RowsSound'
    <3> SUFFICES ASSUME NEW i \in Verified', NEW rows \in SUBSET Nat, ledger'[i].basis = rows
                 PROVE  /\ Grounded(rows)' /\ Fingerprint(ledger'[i]) = Merged(rows)'
                        /\ ledger'[i].contradicted => ledger'[i].disturbed
      BY DEF RowsSound
    <3>1. CASE i = Place
      BY <1>18, <2>1, <2>2, <2>3, <3>1
    <3>2. CASE i \in Verified
      BY <1>19, <3>2, GrownSound
    <3> QED
      BY <2>1, <3>1, <3>2
  <2>5. \A i \in Verified : ledger'[i].basis # counted
    <3> SUFFICES ASSUME NEW i \in Verified, ledger'[i].basis = counted PROVE FALSE
      OBVIOUS
    <3>1. ledger[i].basis = counted /\ i \in DOMAIN ledger
      BY <1>19 DEF Grown, Unchanged, Verified
    <3>2. Fingerprint(ledger[i]) = Merged(counted)
      BY <1>8, <3>1 DEF RowsSound
    <3> QED
      BY <1>20, <1>24, <3>1, <3>2 DEF Appended
  <2>6. OneEach'
    BY <1>18, <1>19, <2>1, <2>5, GrownSound DEF OneEach
  <2>7. \A i \in DOMAIN ledger' : ledger'[i].promotion = "superseded" =>
          i = old \/ (i \in DOMAIN ledger /\ ledger[i].promotion = "superseded")
    BY <1>18, <1>24 DEF Appended
  <2>8. ledger'[Place].supersedes = old /\ old \in ledger'[Place].basis
    BY <1>6, <1>18, <2>1
  <2>9. Succeeded'
    BY <1>19, <2>1, <2>7, <2>8, GrownSound DEF Succeeded
  <2> QED
    BY <2>4, <2>6, <2>9 DEF Rows
<1>25. Rows'
  BY <1>19, <1>24, SameRows
<1> QED
  BY <1>19, <1>22, <1>23, <1>25 DEF Rows, Grown

(* One step for each transaction.                                           *)
LEMMA MemoryInvNext == MemoryInv /\ [MemoryNext]_memoryVars => MemoryInv'
<1> SUFFICES ASSUME MemoryInv, [MemoryNext]_memoryVars PROVE MemoryInv'
  OBVIOUS
<1>1. CASE UNCHANGED memoryVars
  <2>1. ledger' = ledger /\ dreamer' = dreamer
    BY <1>1 DEF memoryVars
  <2>2. Grown /\ Rows' /\ CandidateRows' = CandidateRows
    BY <2>1, SameRows DEF CandidateRows
  <2>3. DreamsSound'
    BY <2>1, <2>2, DreamsKept DEF DreamsSound, MemoryInv, MemoryTyped
  <2> QED
    BY <2>1, <2>2, <2>3 DEF MemoryInv, MemoryTyped, Rows
<1>2. CASE \E run \in Runs, content \in Contents, later \in BOOLEAN : Observe(run, content, later)
  BY <1>2, ObserveStep
<1>3. CASE \E d \in Dreamers : \/ ReadCandidates(d) \/ DreamerDies(d)
                               \/ \E later \in BOOLEAN : Revise(d, later)
  BY <1>3, ReadCandidatesStep, DreamerDiesStep, ReviseStep
<1> QED
  BY <1>1, <1>2, <1>3 DEF MemoryNext

(* dream_memory.py:5, "creates a verified revision only when independent     *)
(* runs agree", and :112, "Conflicting evidence must never be promoted": for *)
(* any runs, contents and dreams that overlap.                               *)
THEOREM Memories == MemorySpec => []MemorySound
<1>1. MemoryInit => MemoryInv
  BY MemoryInvInit
<1>2. MemoryInv /\ [MemoryNext]_memoryVars => MemoryInv'
  BY MemoryInvNext
<1>3. MemoryInv => MemorySound
  BY MemoryInvImplies
<1> QED
  BY <1>1, <1>2, <1>3, PTL DEF MemorySpec
=============================================================================
