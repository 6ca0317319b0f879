------------------------- MODULE LegacyImport_proofs -------------------------
(***************************************************************************)
(* The import and the configuration centre beside it, for any files, lines  *)
(* and keys and any number of runs: a run that returns has brought over     *)
(* everything, running it again adds nothing, what was deleted stays gone,  *)
(* and a load gives each key the value its page shows as set.               *)
(***************************************************************************)
EXTENDS LegacyImport, TLAPS

Sessions == ToSet(SessionFiles)
Audit == ToSet(AuditFiles)

LEMMA FilesOf ==
  /\ \A i \in 1..Len(AuditFiles) : AuditFiles[i] \in Audit
  /\ \A i \in 1..Len(SessionFiles) : SessionFiles[i] \in Sessions
  /\ \A f \in Audit : \E i \in 1..Len(AuditFiles) : AuditFiles[i] = f
  /\ \A f \in Sessions : \E i \in 1..Len(SessionFiles) : SessionFiles[i] = f
  /\ Len(AuditFiles) \in Nat /\ Len(SessionFiles) \in Nat
  BY LegacyAssumption DEF Sessions, Audit, ToSet

-----------------------------------------------------------------------------
(* What a run leaves *)

Step == {"idle", "failed", "done", "config", "sessions", "known", "files", "audit", "lines",
         "skills"}
Run == [pc : Step, at : Nat, line : Nat, force : BOOLEAN,
        known : SUBSET Sessions, lost : SUBSET (Sessions \cup Audit)]

(* Every variable of the import keeps its shape. *)
ImportTyped ==
  /\ readable \subseteq Sessions
  /\ content \in [Audit -> Seq(BOOLEAN)]
  /\ copies = [f \in Audit |-> copies[f]]
  /\ \A f \in Audit : copies[f] \in [DOMAIN content[f] -> Nat]
  /\ sessions \subseteq ever /\ ever \subseteq Sessions
  /\ marks \subseteq Audit \cup {"config", "sessions", "skills"}
  /\ run \in Run /\ run.at >= 1
  /\ run.pc = "lines" => run.at <= Len(AuditFiles)
  /\ run.pc = "audit" => run.line = 1

Read(f) == \A n \in DOMAIN content[f] : content[f][n] => copies[f][n] >= 1
ReadUpTo(f, m) == \A n \in DOMAIN content[f] : n < m /\ content[f][n] => copies[f][n] >= 1

(* A marked part has come over; the run has dealt with the files before the
   one it is at. *)
SessionsCome ==
  /\ "sessions" \in marks => readable \subseteq ever
  /\ run.known \subseteq ever
  /\ run.pc = "files" =>
       \A i \in 1..Len(SessionFiles) : i < run.at /\ SessionFiles[i] \in readable =>
         SessionFiles[i] \in ever \cup run.lost
  /\ run.pc \in {"audit", "lines", "skills", "done"} => readable \subseteq ever \cup run.lost

AuditComes ==
  /\ \A f \in marks \cap Audit : f \in gaveUp \/ Read(f)
  /\ run.pc = "lines" =>
       \/ AuditFiles[run.at] \in gaveUp
       \/ ReadUpTo(AuditFiles[run.at], run.line)
  /\ run.pc \in {"audit", "lines"} =>
       \A i \in 1..Len(AuditFiles) : i < run.at => AuditFiles[i] \in marks
  /\ run.pc \in {"skills", "done"} => Audit \subseteq marks

(* Where no run was cut short a stored line is of a marked file, or one the
   run has passed in the file it is reading. *)
StoredOnce ==
  /\ run.pc = "lines" => AuditFiles[run.at] \notin marks
  /\ \A f \in Audit \ cut : \A n \in DOMAIN content[f] :
       /\ copies[f][n] <= 1
       /\ copies[f][n] >= 1 =>
            \/ f \in marks
            \/ run.pc = "lines" /\ f = AuditFiles[run.at] /\ n < run.line

(* A directory that came over whole is marked, and a run that is not forced
   does not read a marked one. *)
CleanIsMarked ==
  /\ clean => "sessions" \in marks
  /\ run.pc \in {"known", "files"} /\ ~run.force => "sessions" \notin marks

ImportSound ==
  ImportTyped /\ SessionsCome /\ AuditComes /\ StoredOnce /\ CleanIsMarked

LEMMA ImportAtFirst ==
  ASSUME Init
  PROVE  ImportSound
<1>1. readable \subseteq Sessions /\ content \in [Audit -> Seq(BOOLEAN)]
  BY LegacyAssumption DEF Init, Sessions, Audit
<1>2. copies = [f \in Audit |-> copies[f]]
  <2> DEFINE none(f) == [n \in DOMAIN content[f] |-> 0]
  <2>1. copies = [f \in Audit |-> none(f)]
    BY DEF Init, Audit
  <2> HIDE DEF none
  <2> QED BY <2>1
<1>3. \A f \in Audit : copies[f] = [n \in DOMAIN content[f] |-> 0]
  BY DEF Init, Audit
<1>4. \A f \in Audit : copies[f] \in [DOMAIN content[f] -> Nat]
  <2> DEFINE none(S) == [n \in S |-> 0]
  <2>1. \A S : none(S) \in [S -> Nat]
    OBVIOUS
  <2>2. \A f \in Audit : copies[f] = none(DOMAIN content[f])
    BY <1>3
  <2> HIDE DEF none
  <2> QED BY <2>1, <2>2
<1>5. run \in Run /\ run.at >= 1 /\ run.pc = "idle" /\ run.known = {}
  <2>1. run = IdleRun
    BY DEF Init
  <2> QED BY <2>1 DEF IdleRun, Run, Step
<1>6. sessions = {} /\ marks = {} /\ ever = {} /\ ~clean
  BY DEF Init
<1>7. ImportTyped
  BY <1>1, <1>2, <1>4, <1>5, <1>6 DEF ImportTyped
<1>8. ASSUME NEW f \in Audit, NEW n \in DOMAIN content[f]
      PROVE  copies[f][n] = 0
  BY <1>3
<1>9. StoredOnce
  BY <1>5, <1>8 DEF StoredOnce
<1> QED BY <1>5, <1>6, <1>7, <1>9 DEF ImportSound, SessionsCome, AuditComes, CleanIsMarked

LEMMA ToStep ==
  ASSUME run \in Run, NEW pc \in Step
  PROVE  /\ To(pc) \in Run /\ To(pc).pc = pc /\ To(pc).at = 1 /\ To(pc).line = 1
         /\ (To(pc).force <=> run.force) /\ To(pc).known = run.known /\ To(pc).lost = run.lost
<1>1. To(pc).pc = pc /\ To(pc).at = 1 /\ To(pc).line = 1
  BY DEF To, Run
<1>2. To(pc).known = run.known /\ To(pc).lost = run.lost
  BY DEF To, Run
<1>3. (To(pc).force <=> run.force)
  BY DEF To, Run
<1>4. To(pc) \in Run
  BY DEF To, Run
<1> QED BY <1>1, <1>2, <1>3, <1>4

(* The files and what is said of them stay; only rows and the run move. *)
LEMMA ConfigKeeps ==
  ASSUME ImportSound, Migrate \/ ImportKey \/ MarkConfig
  PROVE  ImportSound'
<1> USE DEF ImportSound
<1>1. /\ UNCHANGED <<filesVars, sessions, copies, ever, clean, gaveUp, cut>>
      /\ run' \in Run /\ run'.at >= 1 /\ run'.pc \in {"config", "sessions", "failed"}
      /\ run'.known \subseteq run.known
      /\ marks' \in {marks, marks \cup {"config"}}
  <2>1. CASE Migrate
    <3>1. PICK force \in BOOLEAN : run' = [IdleRun EXCEPT !.pc = "config", !.force = force]
      BY <2>1 DEF Migrate
    <3>2. run' = [pc |-> "config", at |-> 1, line |-> 1, force |-> force, known |-> {},
                  lost |-> {}]
      BY <3>1 DEF IdleRun
    <3>3. run' \in Run /\ run'.at >= 1 /\ run'.pc = "config" /\ run'.known = {}
      BY <3>2 DEF Run, Step
    <3> QED BY <2>1, <3>3 DEF Migrate, rowsVars, historyVars
  <2>2. CASE ImportKey
    <3>1. run.pc = "config" /\ run \in Run /\ run.at >= 1
      BY <2>2 DEF ImportKey, ImportTyped
    <3>2. run' = [run EXCEPT !.at = @ + 1] \/ run' = [run EXCEPT !.pc = "failed"]
      BY <2>2 DEF ImportKey
    <3>3. run' \in Run /\ run'.at >= 1 /\ run'.pc \in {"config", "failed"} /\ run'.known = run.known
      BY <3>1, <3>2 DEF Run, Step
    <3> QED BY <2>2, <3>3 DEF ImportKey, rowsVars, historyVars
  <2>3. CASE MarkConfig
    BY <2>3, ToStep DEF MarkConfig, ImportTyped, historyVars, Step
  <2> QED BY <2>1, <2>2, <2>3
<1>2. "config" \notin Audit
  BY LegacyAssumption DEF Audit
<1>3. ImportTyped'
  BY <1>1 DEF ImportTyped, filesVars
<1>4. SessionsCome' /\ CleanIsMarked'
  BY <1>1 DEF SessionsCome, CleanIsMarked, filesVars
<1>5. AuditComes'
  BY <1>1, <1>2 DEF AuditComes, Read, filesVars
<1>6. StoredOnce'
  <2>1. run.pc # "lines"
    BY DEF Migrate, ImportKey, MarkConfig
  <2> QED BY <1>1, <2>1 DEF StoredOnce, filesVars
<1> QED BY <1>3, <1>4, <1>5, <1>6

(* The directory of sessions is looked for, read and marked; users delete. *)
LEMMA SessionsKeep ==
  ASSUME ImportSound, LookForSessions \/ knownSessions \/ MarkSessions
  PROVE  ImportSound'
<1> USE DEF ImportSound
<1>1. /\ UNCHANGED <<filesVars, sessions, copies, ever, gaveUp, cut>>
      /\ run.pc \in {"sessions", "known", "files"} /\ run \in Run
      /\ run' \in Run /\ run'.at = 1 /\ run'.pc \in {"known", "files", "audit"}
      /\ run'.pc = "audit" => run'.line = 1
      /\ (run'.force <=> run.force)
      /\ run'.lost = run.lost
  <2>1. CASE LookForSessions
    BY <2>1, ToStep DEF LookForSessions, ImportTyped, historyVars, rowsVars, Step
  <2>2. CASE knownSessions
    <3> DEFINE r == To("files")
    <3>1. r \in Run /\ r.pc = "files" /\ r.at = 1 /\ (r.force <=> run.force) /\ r.lost = run.lost
      BY ToStep DEF ImportTyped, Step
    <3>2. sessions \subseteq Sessions
      BY DEF ImportTyped
    <3> HIDE DEF r
    <3>3. run' = [r EXCEPT !.known = sessions]
      BY <2>2 DEF knownSessions, r
    <3>4. /\ run' \in Run /\ run'.pc = "files" /\ run'.at = 1
          /\ (run'.force <=> run.force) /\ run'.lost = run.lost
      BY <3>1, <3>2, <3>3 DEF Run
    <3> QED BY <2>2, <3>4 DEF knownSessions, historyVars, rowsVars, ImportTyped
  <2>3. CASE MarkSessions
    BY <2>3, ToStep DEF MarkSessions, ImportTyped, Step
  <2> QED BY <2>1, <2>2, <2>3
<1>2. /\ run'.known \subseteq ever
      /\ run'.pc = "known" => run.force \/ "sessions" \notin marks
      /\ run'.pc = "files" => run.pc = "known"
      /\ run'.pc = "audit" => MarkSessions \/ "sessions" \in marks
      /\ MarkSessions => run'.pc = "audit"
  <2>1. CASE LookForSessions
    BY <2>1, ToStep DEF LookForSessions, SessionsDone, MarkSessions, ImportTyped, SessionsCome, Step
  <2>2. CASE knownSessions
    <3> DEFINE r == To("files")
    <3>1. r \in Run /\ r.pc = "files"
      BY ToStep DEF ImportTyped, Step
    <3> HIDE DEF r
    <3>2. run' = [r EXCEPT !.known = sessions]
      BY <2>2 DEF knownSessions, r
    <3>3. run'.known = sessions /\ run'.pc = "files"
      BY <3>1, <3>2 DEF Run
    <3> QED BY <2>2, <3>3 DEF knownSessions, MarkSessions, ImportTyped
  <2>3. CASE MarkSessions
    BY <2>3, ToStep DEF MarkSessions, ImportTyped, SessionsCome, Step
  <2> QED BY <2>1, <2>2, <2>3
<1>3. /\ marks' = marks /\ (clean' <=> clean)
      \/ /\ marks' = marks \cup {"sessions"} /\ run.lost = {} /\ MarkSessions
      \/ /\ marks' = marks /\ (clean' <=> clean) /\ MarkSessions
  <2>1. CASE LookForSessions \/ knownSessions
    BY <2>1 DEF LookForSessions, knownSessions, rowsVars, historyVars
  <2>2. CASE MarkSessions
    BY <2>2 DEF MarkSessions, NothingLost
  <2> QED BY <2>1, <2>2
<1>4. "sessions" \notin Audit
  BY LegacyAssumption DEF Audit
<1>5. MarkSessions => readable \subseteq ever \cup run.lost
  BY FilesOf DEF MarkSessions, SessionsCome, ImportTyped, Run
<1>6. ImportTyped'
  BY <1>1, <1>3 DEF ImportTyped, filesVars
<1>7. SessionsCome'
  BY <1>1, <1>2, <1>3, <1>5 DEF SessionsCome, filesVars
<1>8. AuditComes'
  BY <1>1, <1>3, <1>4 DEF AuditComes, Read, filesVars
<1>9. StoredOnce'
  BY <1>1, <1>3, <1>4 DEF StoredOnce, filesVars
<1>10. CleanIsMarked'
  BY <1>1, <1>2, <1>3 DEF CleanIsMarked
<1> QED BY <1>6, <1>7, <1>8, <1>9, <1>10

LEMMA OneSession ==
  ASSUME ImportSound, ImportSession
  PROVE  /\ ImportSound'
         /\ sessions' # sessions => run.force \/ ~clean
<1> DEFINE f == SessionFiles[run.at]
<1> USE DEF ImportSound
<1>1. /\ UNCHANGED <<filesVars, copies, marks, clean, gaveUp, cut>> /\ run.pc = "files"
      /\ run \in Run /\ run.at >= 1 /\ run.at <= Len(SessionFiles) /\ f \in Sessions
  BY FilesOf DEF ImportSession, ImportTyped, Run
<1>2. /\ run'.at = run.at + 1 /\ run'.pc = "files" /\ (run'.force <=> run.force) /\ run' \in Run
      /\ ever \subseteq ever' /\ sessions' \subseteq ever' /\ ever' \subseteq Sessions
      /\ run'.known \subseteq ever' /\ run.lost \subseteq run'.lost
      /\ f \in readable => f \in ever' \cup run'.lost
  <2> DEFINE next == [run EXCEPT !.at = @ + 1]
  <2>1. /\ next \in Run /\ next.at = run.at + 1 /\ next.pc = "files" /\ (next.force <=> run.force)
        /\ next.known = run.known /\ next.lost = run.lost
    BY <1>1 DEF Run
  <2>2. sessions \subseteq ever /\ ever \subseteq Sessions /\ run.known \subseteq ever
    BY DEF ImportTyped, SessionsCome
  <2> HIDE DEF next, f
  <2>3. CASE run' = [next EXCEPT !.lost = @ \cup {f}] /\ UNCHANGED <<sessions, ever>>
    <3>1. /\ run' \in Run /\ run'.at = next.at /\ run'.pc = next.pc /\ (run'.force <=> next.force)
          /\ run'.known = next.known /\ run'.lost = next.lost \cup {f}
      BY <1>1, <2>1, <2>3 DEF Run
    <3> QED BY <2>1, <2>2, <2>3, <3>1
  <2>4. CASE f \in run.known /\ run' = next /\ UNCHANGED <<sessions, ever>>
    BY <2>1, <2>2, <2>4
  <2>5. CASE /\ sessions' = sessions \cup {f} /\ ever' = ever \cup {f}
             /\ run' = [next EXCEPT !.known = @ \cup {f}]
    <3>1. /\ run' \in Run /\ run'.at = next.at /\ run'.pc = next.pc /\ (run'.force <=> next.force)
          /\ run'.known = next.known \cup {f} /\ run'.lost = next.lost
      BY <1>1, <2>1, <2>5 DEF Run
    <3> QED BY <1>1, <2>1, <2>2, <2>5, <3>1
  <2> QED BY <2>3, <2>4, <2>5 DEF ImportSession, next, f
<1>3. \A i \in 1..Len(SessionFiles) : i < run'.at /\ SessionFiles[i] \in readable =>
         SessionFiles[i] \in ever' \cup run'.lost
  <2> SUFFICES ASSUME NEW i \in 1..Len(SessionFiles), i < run'.at, SessionFiles[i] \in readable
               PROVE  SessionFiles[i] \in ever' \cup run'.lost
    OBVIOUS
  <2>1. i < run.at \/ i = run.at
    BY <1>1, <1>2, FilesOf DEF Run
  <2> QED BY <1>1, <1>2, <2>1 DEF SessionsCome
<1>4. ImportTyped'
  BY <1>1, <1>2 DEF ImportTyped, filesVars, Run
<1>5. SessionsCome'
  BY <1>1, <1>2, <1>3 DEF SessionsCome, filesVars
<1>6. AuditComes' /\ StoredOnce'
  BY <1>1, <1>2 DEF AuditComes, Read, StoredOnce, filesVars
<1>7. CleanIsMarked' /\ (run.force \/ ~clean)
  BY <1>1, <1>2 DEF CleanIsMarked
<1> QED BY <1>4, <1>5, <1>6, <1>7

LEMMA Deletion ==
  ASSUME ImportSound, NEW f \in ToSet(SessionFiles), DeleteSession(f)
  PROVE  ImportSound'
<1> USE DEF ImportSound, DeleteSession
<1>1. ImportTyped'
  BY DEF ImportTyped, filesVars, historyVars
<1>2. SessionsCome' /\ CleanIsMarked'
  BY DEF SessionsCome, CleanIsMarked, filesVars, historyVars
<1>3. AuditComes' /\ StoredOnce'
  BY DEF AuditComes, StoredOnce, Read, ReadUpTo, filesVars, historyVars
<1> QED BY <1>1, <1>2, <1>3

(* The audit files: where the run is among them, and in one of them. *)
LEMMA AuditFileFound ==
  ASSUME ImportSound, LookForAudit
  PROVE  ImportSound'
<1> USE DEF ImportSound
<1>1. /\ UNCHANGED <<filesVars, sessions, copies, marks, historyVars>>
      /\ run.pc = "audit" /\ run \in Run /\ run.at >= 1 /\ run.line = 1
      /\ run.at <= Len(AuditFiles)
  BY DEF LookForAudit, ImportTyped, rowsVars
<1>2. /\ run' \in Run /\ run'.known = run.known /\ run'.lost = run.lost
      /\ run'.line = 1 /\ run'.at >= 1
      /\ \/ run'.pc = "audit" /\ run'.at = run.at + 1 /\ AuditFiles[run.at] \in marks
         \/ run'.pc = "lines" /\ run'.at = run.at /\ AuditFiles[run.at] \notin marks
  <2>1. CASE AuditFiles[run.at] \in marks
    <3>1. run' = [run EXCEPT !.at = @ + 1]
      BY <2>1 DEF LookForAudit
    <3> QED BY <1>1, <2>1, <3>1 DEF Run
  <2>2. CASE AuditFiles[run.at] \notin marks
    <3>1. run' = [run EXCEPT !.pc = "lines"]
      BY <2>2 DEF LookForAudit
    <3> QED BY <1>1, <2>2, <3>1 DEF Run, Step
  <2> QED BY <2>1, <2>2
<1>3. ImportTyped'
  BY <1>1, <1>2 DEF ImportTyped, filesVars, historyVars
<1>4. SessionsCome' /\ CleanIsMarked'
  BY <1>1, <1>2 DEF SessionsCome, CleanIsMarked, filesVars, historyVars
<1>5. AuditComes'
  <2>1. ASSUME NEW i \in 1..Len(AuditFiles), i < run'.at
        PROVE  AuditFiles[i] \in marks
    <3>1. i < run.at \/ (i = run.at /\ run'.pc = "audit")
      BY <1>1, <1>2, <2>1, FilesOf DEF Run
    <3> QED BY <1>1, <1>2, <3>1 DEF AuditComes
  <2>2. ASSUME NEW f \in Audit, NEW n \in DOMAIN content[f]
        PROVE  ~(n < 1)
    <3>1. content[f] \in Seq(BOOLEAN)
      BY DEF ImportTyped
    <3> QED BY <3>1
  <2>3. AuditFiles[run.at] \in Audit
    BY <1>1, FilesOf DEF Run
  <2>4. \A f \in marks' \cap Audit : f \in gaveUp' \/ Read(f)'
    BY <1>1 DEF AuditComes, Read, filesVars, historyVars
  <2>5. run'.pc = "lines" => ReadUpTo(AuditFiles[run.at], run.line)'
    <3> SUFFICES ASSUME run'.pc = "lines"
                 PROVE  ReadUpTo(AuditFiles[run.at], run.line)'
      OBVIOUS
    <3>1. AuditFiles[run'.at] \in Audit /\ run'.line = 1
      BY <1>2, <2>3
    <3>2. \A n \in DOMAIN content'[AuditFiles[run'.at]] : ~(n < 1)
      BY <1>1, <2>2, <3>1 DEF filesVars
    <3> QED BY <3>1, <3>2 DEF ReadUpTo
  <2> QED BY <1>1, <1>2, <2>1, <2>4, <2>5 DEF AuditComes
<1>6. StoredOnce'
  BY <1>1, <1>2 DEF StoredOnce, filesVars, historyVars
<1> QED BY <1>3, <1>4, <1>5, <1>6

LEMMA AuditFileDone ==
  ASSUME ImportSound, MarkAudit
  PROVE  ImportSound'
<1> USE DEF ImportSound
<1> DEFINE f == AuditFiles[run.at]
<1>1. /\ UNCHANGED <<filesVars, sessions, copies, historyVars>>
      /\ run.pc = "lines" /\ run \in Run /\ run.at >= 1 /\ run.at <= Len(AuditFiles)
      /\ run.line > Len(content[f]) /\ marks' = marks \cup {f} /\ f \in Audit
  BY FilesOf DEF MarkAudit, ImportTyped, Run
<1>2. /\ run' \in Run /\ run'.known = run.known /\ run'.lost = run.lost
      /\ run'.line = 1 /\ run'.at = run.at + 1 /\ run'.pc = "audit"
  <2>1. run' = [run EXCEPT !.pc = "audit", !.at = @ + 1, !.line = 1]
    BY DEF MarkAudit
  <2>2. /\ run'.known = run.known /\ run'.lost = run.lost
        /\ run'.line = 1 /\ run'.at = run.at + 1 /\ run'.pc = "audit"
    BY <1>1, <2>1 DEF Run
  <2>3. run' \in Run
    <3> DEFINE next == run.at + 1
    <3>1. next \in Nat /\ run' = [run EXCEPT !.pc = "audit", !.at = next, !.line = 1]
      BY <1>1, <2>1 DEF Run
    <3> HIDE DEF next
    <3> QED BY <1>1, <3>1 DEF Run, Step
  <2> QED BY <2>2, <2>3
<1>3. f \in gaveUp \/ Read(f)
  <2>1. content[f] \in Seq(BOOLEAN)
    BY <1>1 DEF ImportTyped
  <2> HIDE DEF f
  <2>2. \A n \in DOMAIN content[f] : n < run.line
    BY <1>1, <2>1 DEF Run
  <2> QED BY <1>1, <2>2 DEF AuditComes, ReadUpTo, Read, f
<1>4. f \notin {"config", "sessions", "skills"}
  BY <1>1, LegacyAssumption DEF Audit
<1> HIDE DEF f
<1>5. ImportTyped'
  BY <1>1, <1>2 DEF ImportTyped, filesVars, historyVars, Run
<1>6. SessionsCome' /\ CleanIsMarked'
  BY <1>1, <1>2, <1>4 DEF SessionsCome, CleanIsMarked, filesVars, historyVars
<1>7. AuditComes'
  <2>1. \A i \in 1..Len(AuditFiles) : i < run'.at => i < run.at \/ i = run.at
    BY <1>1, <1>2, FilesOf DEF Run
  <2>2. \A i \in 1..Len(AuditFiles) : i < run'.at => AuditFiles[i] \in marks'
    BY <1>1, <2>1 DEF AuditComes, f
  <2>3. \A g \in marks' \cap Audit : g \in gaveUp' \/ Read(g)'
    BY <1>1, <1>3 DEF AuditComes, Read, filesVars, historyVars
  <2> QED BY <1>2, <2>2, <2>3 DEF AuditComes
<1>8. StoredOnce'
  BY <1>1, <1>2 DEF StoredOnce, filesVars, historyVars, f
<1> QED BY <1>5, <1>6, <1>7, <1>8

LEMMA AuditAllRead ==
  ASSUME ImportSound, AuditRead
  PROVE  ImportSound'
<1> USE DEF ImportSound
<1>1. /\ UNCHANGED <<filesVars, sessions, copies, marks, historyVars>>
      /\ run.pc = "audit" /\ run \in Run /\ run.at > Len(AuditFiles)
  BY DEF AuditRead, ImportTyped, rowsVars
<1>2. /\ run' \in Run /\ run'.known = run.known /\ run'.lost = run.lost
      /\ run'.at = 1 /\ run'.pc = "skills"
  BY <1>1, ToStep DEF AuditRead, Step
<1>3. Audit \subseteq marks
  BY <1>1, FilesOf DEF AuditComes, Run
<1>4. ImportTyped'
  BY <1>1, <1>2 DEF ImportTyped, filesVars, historyVars
<1>5. SessionsCome' /\ CleanIsMarked'
  BY <1>1, <1>2 DEF SessionsCome, CleanIsMarked, filesVars, historyVars
<1>6. AuditComes' /\ StoredOnce'
  BY <1>1, <1>2, <1>3 DEF AuditComes, Read, StoredOnce, filesVars, historyVars
<1> QED BY <1>4, <1>5, <1>6

LEMMA OneLine ==
  ASSUME ImportSound, importAuditLine
  PROVE  ImportSound'
<1> USE DEF ImportSound
<1> DEFINE f == AuditFiles[run.at]
           m == run.line
<1>1. /\ UNCHANGED <<filesVars, sessions, marks, historyVars>>
      /\ run.pc = "lines" /\ run \in Run /\ run.at >= 1 /\ run.at <= Len(AuditFiles)
      /\ f \in Audit /\ m \in Nat
  BY FilesOf DEF importAuditLine, ImportTyped, Run
<1>2. /\ run' \in Run /\ run'.known = run.known /\ run'.lost = run.lost
      /\ run'.line = m + 1 /\ run'.at = run.at /\ run'.pc = "lines" /\ (run'.force <=> run.force)
  BY <1>1 DEF importAuditLine, Run
<1>3. copies' = [copies EXCEPT ![f][m] = IF content[f][m] THEN @ + 1 ELSE @]
  BY DEF importAuditLine
<1>4. copies = [g \in Audit |-> copies[g]] /\ \A g \in Audit : copies[g] \in [DOMAIN content[g] -> Nat]
  BY DEF ImportTyped
<1> DEFINE new == IF content[f][m] THEN copies[f][m] + 1 ELSE copies[f][m]
<1>5. m \in DOMAIN content[f] => new \in Nat
  BY <1>1, <1>4
<1> f \in Audit
  BY <1>1
<1> HIDE DEF f, m
<1>6. copies' = [copies EXCEPT ![f] = [copies[f] EXCEPT ![m] = new]]
  BY <1>3
<1>7. /\ copies' = [g \in Audit |-> copies'[g]]
      /\ \A g \in Audit \ {f} : copies'[g] = copies[g]
      /\ copies'[f] = [copies[f] EXCEPT ![m] = new]
  <2> HIDE DEF new
  <2> QED BY <1>4, <1>6
<1>8. copies'[f] \in [DOMAIN content[f] -> Nat]
  <2> HIDE DEF new
  <2> QED BY <1>4, <1>5, <1>7
<1>9. \A n \in DOMAIN content[f] : n # m => copies'[f][n] = copies[f][n]
  <2> HIDE DEF new
  <2> QED BY <1>4, <1>7
<1>10. m \in DOMAIN content[f] => copies'[f][m] = new
  <2> HIDE DEF new
  <2> QED BY <1>4, <1>7
<1>11. /\ m \in DOMAIN content[f] => copies[f][m] \in Nat /\ copies'[f][m] >= copies[f][m]
       /\ m \in DOMAIN content[f] /\ content[f][m] => copies'[f][m] = copies[f][m] + 1
       /\ m \in DOMAIN content[f] /\ ~content[f][m] => copies'[f][m] = copies[f][m]
  BY <1>4, <1>10
<1>12. ImportTyped'
  BY <1>1, <1>2, <1>4, <1>7, <1>8 DEF ImportTyped, filesVars, historyVars
<1>13. SessionsCome' /\ CleanIsMarked'
  BY <1>1, <1>2 DEF SessionsCome, CleanIsMarked, filesVars, historyVars
<1>14. ASSUME NEW g \in Audit, NEW n \in DOMAIN content[g]
       PROVE  copies[g][n] \in Nat /\ copies'[g][n] \in Nat /\ copies'[g][n] >= copies[g][n]
  <2>1. copies[g][n] \in Nat
    BY <1>4
  <2>2. CASE g # f \/ n # m
    <3>1. copies'[g][n] = copies[g][n]
      BY <1>7, <1>9, <2>2
    <3> QED BY <2>1, <3>1
  <2>3. CASE g = f /\ n = m
    <3>1. copies'[f][m] \in Nat
      BY <1>8, <2>3
    <3> QED BY <1>11, <2>1, <2>3, <3>1
  <2> QED BY <2>2, <2>3
<1>15. AuditComes'
  <2>1. \A g \in marks' \cap Audit : g \in gaveUp' \/ Read(g)'
    BY <1>1, <1>14 DEF AuditComes, Read, filesVars, historyVars
  <2>2. f \in gaveUp \/ ReadUpTo(f, m)
    BY <1>1 DEF AuditComes, f, m
  <2>3. ASSUME f \notin gaveUp, NEW n \in DOMAIN content[f], n < m + 1, content[f][n]
        PROVE  copies'[f][n] >= 1
    <3>1. n \in Nat
      BY <1>1 DEF ImportTyped
    <3>2. CASE n = m
      BY <1>11, <2>3, <3>2
    <3>3. CASE n < m
      BY <1>14, <2>2, <2>3, <3>3 DEF ReadUpTo
    <3> QED BY <1>1, <2>3, <3>1, <3>2, <3>3
  <2>4. AuditFiles[run'.at] = f /\ run'.line = m + 1
    BY <1>2 DEF f
  <2>5. AuditFiles[run'.at] \in gaveUp' \/ ReadUpTo(AuditFiles[run.at], run.line)'
    BY <1>1, <2>3, <2>4 DEF ReadUpTo, filesVars, historyVars
  <2> QED BY <1>1, <1>2, <2>1, <2>5 DEF AuditComes
<1>16. StoredOnce'
  <2>1. AuditFiles[run'.at] = f /\ run'.line = m + 1 /\ f \notin marks
    BY <1>1, <1>2 DEF f, StoredOnce
  <2>2. ASSUME NEW g \in Audit \ cut, NEW n \in DOMAIN content[g]
        PROVE  /\ copies'[g][n] <= 1
               /\ copies'[g][n] >= 1 => g \in marks \/ (g = f /\ n < m + 1)
    <3>1. /\ copies[g][n] <= 1
          /\ copies[g][n] >= 1 => g \in marks \/ (g = f /\ n < m)
      BY <1>1 DEF StoredOnce, f, m
    <3>2. n \in Nat /\ m \in Nat
      BY <1>1 DEF ImportTyped
    <3>3. CASE g = f /\ n = m
      BY <1>11, <2>1, <3>1, <3>2, <3>3
    <3>4. CASE ~(g = f /\ n = m)
      <4>1. copies'[g][n] = copies[g][n]
        BY <1>7, <1>9, <3>4
      <4> QED BY <3>1, <3>2, <4>1
    <3> QED BY <3>3, <3>4
  <2> QED BY <1>1, <1>2, <2>1, <2>2 DEF StoredOnce, filesVars, historyVars
<1> QED BY <1>12, <1>13, <1>15, <1>16

LEMMA GivenUp ==
  ASSUME ImportSound, GiveUpAudit
  PROVE  ImportSound'
<1> USE DEF ImportSound
<1> DEFINE f == AuditFiles[run.at]
           n == Len(content[f]) + 1
<1>1. /\ UNCHANGED <<filesVars, rowsVars, ever, clean, cut>> /\ gaveUp' = gaveUp \cup {f}
      /\ run.pc = "lines" /\ run \in Run /\ run.at >= 1 /\ run.at <= Len(AuditFiles)
      /\ f \in Audit
  BY FilesOf DEF GiveUpAudit, ImportTyped, Run
<1>2. run.line <= n /\ n \in Nat
  BY <1>1 DEF GiveUpAudit, ImportTyped, Run
<1>3. run' = [run EXCEPT !.line = n, !.lost = @ \cup {f}]
  BY DEF GiveUpAudit
<1> HIDE DEF f, n
<1>4. /\ run' \in Run /\ run'.known = run.known /\ run'.lost = run.lost \cup {f}
      /\ run'.line = n /\ run'.at = run.at /\ run'.pc = "lines" /\ (run'.force <=> run.force)
  BY <1>1, <1>2, <1>3 DEF Run
<1>5. ImportTyped'
  BY <1>1, <1>4 DEF ImportTyped, filesVars, rowsVars
<1>6. SessionsCome' /\ CleanIsMarked'
  BY <1>1, <1>4 DEF SessionsCome, CleanIsMarked, filesVars, rowsVars
<1>7. AuditComes'
  BY <1>1, <1>4 DEF AuditComes, Read, filesVars, rowsVars, f
<1>8. StoredOnce'
  <2>1. ASSUME NEW g \in Audit, NEW k \in DOMAIN content[g], k < run.line
        PROVE  k < run'.line
    <3>1. k \in Nat
      BY DEF ImportTyped
    <3> QED BY <1>1, <1>2, <1>4, <2>1, <3>1 DEF Run
  <2> QED BY <1>1, <1>4, <2>1 DEF StoredOnce, filesVars, rowsVars
<1> QED BY <1>5, <1>6, <1>7, <1>8

LEMMA SkillsKeep ==
  ASSUME ImportSound, ImportSkills \/ EndRun
  PROVE  ImportSound'
<1> USE DEF ImportSound
<1>1. /\ UNCHANGED <<filesVars, sessions, copies, historyVars>>
      /\ run.pc = "skills" /\ run \in Run /\ run.at >= 1
      /\ marks' \in {marks, marks \cup {"skills"}}
  BY DEF ImportSkills, EndRun, ImportTyped
<1>2. /\ run' \in Run /\ run'.known = run.known /\ run'.lost = run.lost
      /\ run'.at >= 1 /\ run'.pc \in {"skills", "done"}
  BY <1>1, ToStep DEF ImportSkills, EndRun, Step
<1>3. "skills" \notin Audit
  BY LegacyAssumption DEF Audit
<1>4. ImportTyped'
  BY <1>1, <1>2 DEF ImportTyped, filesVars, historyVars
<1>5. SessionsCome' /\ CleanIsMarked'
  BY <1>1, <1>2 DEF SessionsCome, CleanIsMarked, filesVars, historyVars
<1>6. AuditComes' /\ StoredOnce'
  BY <1>1, <1>2, <1>3 DEF AuditComes, Read, StoredOnce, filesVars, historyVars
<1> QED BY <1>4, <1>5, <1>6

LEMMA FailureKeeps ==
  ASSUME ImportSound, RunFails
  PROVE  ImportSound'
<1> USE DEF ImportSound
<1>1. /\ UNCHANGED <<filesVars, rowsVars, ever, clean, gaveUp>> /\ run \in Run /\ run.at >= 1
      /\ cut \subseteq cut'
      /\ run.pc = "lines" => AuditFiles[run.at] \in cut'
  BY DEF RunFails, ImportTyped
<1>2. /\ run' \in Run /\ run'.known = run.known /\ run'.at >= 1 /\ run'.pc = "failed"
  BY <1>1 DEF RunFails, Run, Step
<1>3. ImportTyped'
  BY <1>1, <1>2 DEF ImportTyped, filesVars, rowsVars
<1>4. SessionsCome' /\ CleanIsMarked'
  BY <1>1, <1>2 DEF SessionsCome, CleanIsMarked, filesVars, rowsVars
<1>5. AuditComes' /\ StoredOnce'
  BY <1>1, <1>2 DEF AuditComes, Read, StoredOnce, filesVars, rowsVars
<1> QED BY <1>3, <1>4, <1>5

LEMMA ImportUnchanged ==
  ASSUME ImportSound, UNCHANGED importVars
  PROVE  ImportSound'
<1> USE DEF ImportSound, importVars, filesVars, rowsVars, historyVars
<1>1. ImportTyped'
  BY DEF ImportTyped
<1>2. SessionsCome' /\ CleanIsMarked'
  BY DEF SessionsCome, CleanIsMarked
<1>3. AuditComes' /\ StoredOnce'
  BY DEF AuditComes, Read, ReadUpTo, StoredOnce
<1> QED BY <1>1, <1>2, <1>3

LEMMA ImportSoundStep ==
  ASSUME ImportSound, Next
  PROVE  ImportSound'
<1>1. CASE SettingsNext /\ UNCHANGED importVars
  BY <1>1, ImportUnchanged
<1>2. CASE Migrate \/ Import \/ RunFails
  BY <1>2, ConfigKeeps, SessionsKeep, OneSession, AuditFileFound, AuditFileDone, AuditAllRead,
     OneLine, GivenUp, SkillsKeep, FailureKeeps DEF Import
<1>3. ASSUME NEW f \in ToSet(SessionFiles), DeleteSession(f)
      PROVE  ImportSound'
  BY <1>3, Deletion
<1> QED BY <1>1, <1>2, <1>3 DEF Next

(* What has come over, what is marked and what is stored agree at every step of
   every run, also where one dies. *)
THEOREM ImportInvariant == Spec => []ImportSound
<1>1. ImportSound /\ [Next]_vars => ImportSound'
  <2>1. CASE UNCHANGED vars
    BY <2>1, ImportUnchanged DEF vars
  <2> QED BY <2>1, ImportSoundStep
<1> QED BY <1>1, ImportAtFirst, PTL DEF Spec

(* A run that returns without an error has brought over every session it does
   not report as lost and every audit line of a file no run gave up on. *)
THEOREM Whole == Spec => []CompletedIsWhole
<1>1. ImportSound => CompletedIsWhole
  <2> SUFFICES ASSUME ImportSound, run.pc = "done"
               PROVE  /\ readable \subseteq ever \cup run.lost
                      /\ \A f \in DOMAIN content \ gaveUp : Read(f)
    BY DEF CompletedIsWhole, Read
  <2>1. readable \subseteq ever \cup run.lost
    BY DEF ImportSound, SessionsCome
  <2>2. DOMAIN content = Audit /\ Audit \subseteq marks
    BY DEF ImportSound, ImportTyped, AuditComes
  <2> QED BY <2>1, <2>2 DEF ImportSound, AuditComes
<1> QED BY <1>1, ImportInvariant, PTL

(* An audit line is stored twice only where a run was cut short in its file. *)
THEOREM Once == Spec => []AuditOnce
<1>1. ImportSound => AuditOnce
  <2> SUFFICES ASSUME ImportSound, NEW f \in DOMAIN content, NEW n \in DOMAIN content[f],
                      copies[f][n] > 1, f \notin cut
               PROVE  FALSE
    BY DEF AuditOnce
  <2>1. f \in Audit
    BY DEF ImportSound, ImportTyped
  <2>2. copies[f][n] \in Nat /\ copies[f][n] <= 1
    BY <2>1 DEF ImportSound, ImportTyped, StoredOnce
  <2> QED BY <2>2
<1> QED BY <1>1, ImportInvariant, PTL

(* Once the directory has come over whole, a run that is not forced brings no
   deleted session back. *)
THEOREM GoneStaysGone == Spec => DeletedStaysGone
<1> DEFINE Back == \A f \in ToSet(SessionFiles) :
                     f \in (sessions' \ sessions) \cap ever => run.force \/ ~clean
<1>1. ImportSound /\ [Next]_vars => [Back]_vars
  <2> SUFFICES ASSUME ImportSound, Next
               PROVE  sessions' \subseteq sessions \/ run.force \/ ~clean
    OBVIOUS
  <2>1. CASE SettingsNext /\ UNCHANGED importVars
    BY <2>1 DEF importVars, rowsVars
  <2>2. CASE Migrate \/ Import \/ RunFails
    <3>1. CASE ImportSession
      BY <3>1, OneSession
    <3>2. CASE ~ImportSession
      BY <2>2, <3>2 DEF Migrate, Import, RunFails, ImportKey, MarkConfig, LookForSessions,
         knownSessions, MarkSessions, LookForAudit, importAuditLine, GiveUpAudit, MarkAudit,
         AuditRead, ImportSkills, EndRun, rowsVars
    <3> QED BY <3>1, <3>2
  <2>3. ASSUME NEW f \in ToSet(SessionFiles), DeleteSession(f)
        PROVE  sessions' \subseteq sessions
    BY <2>3 DEF DeleteSession
  <2> QED BY <2>1, <2>2, <2>3 DEF Next
<1>2. [][Next]_vars /\ []ImportSound => [][Back]_vars
  BY <1>1, PTL
<1> QED BY <1>2, ImportInvariant DEF Spec, DeletedStaysGone

-----------------------------------------------------------------------------
(* What a load gives each key *)

(* What the environment would leave of a load's value of a key, and whether
   the rows of the key's group have been read. *)
Final(l, k) ==
  IF k \in Seeded \cup Secret /\ env[k] # Unset /\ ~(k \in Seeded /\ k \in load[l].dbHas)
  THEN env[k] ELSE load[l].raw[k]
GroupRead(l, k) ==
  \E i \in 1..Len(Groups) : i < load[l].group /\ Groups[i] = GroupOf[k]

Record(r) == r = [pc |-> r.pc, group |-> r.group, raw |-> r.raw, dbHas |-> r.dbHas,
                  configured |-> r.configured]

(* A value of a key that the page has shown as set since the load began, or
   the file's if the page has called the key not set. *)
AsShown(l, k, v) ==
  \E item \in since[l][k] : v = IF item.set THEN item.value ELSE file[k]

(* A key that has been read has such a value; one that has not still has the
   file's. *)
LoadHolds(l) ==
  /\ Record(load[l]) /\ load[l].group \in Nat /\ load[l].group >= 1
  /\ load[l].pc = "read" =>
       /\ DOMAIN load[l].raw = Keys
       /\ \A k \in Sourced :
            /\ GroupRead(l, k) => AsShown(l, k, Final(l, k))
            /\ ~GroupRead(l, k) => load[l].raw[k] = file[k] /\ k \notin load[l].dbHas
  /\ load[l].pc \in {"loaded", "unconfigured"} =>
       \A k \in Sourced : AsShown(l, k, load[l].raw[k])

LoadsSound ==
  /\ DOMAIN load = Loaders /\ DOMAIN since = Loaders /\ DOMAIN file = Keys
  /\ \A l \in Loaders : DOMAIN since[l] = Sourced /\ LoadHolds(l)

(* What a page shows of a key, by its row and its variable. *)
Overridden(k) ==
  k \in Seeded \cup Secret /\ env[k] # Unset /\ ~(k \in Seeded /\ HasContent(db[k]))

LEMMA ShownIs ==
  ASSUME NEW k \in Keys
  PROVE  /\ Shown(k).set <=> Overridden(k) \/ HasContent(db[k])
         /\ Overridden(k) => Shown(k).value = env[k]
         /\ ~Overridden(k) /\ HasContent(db[k]) => Shown(k).value = db[k]
<1> DEFINE g == GroupOf[k]
           dbHas == {j \in KeysOf(g) \cap (Seeded \cup Secret) : HasContent(db[j])}
           over == ActiveEnvOverrides(dbHas)
<1>1. k \in KeysOf(g)
  BY DEF KeysOf
<1>2. k \in over <=> Overridden(k)
  BY <1>1 DEF ActiveEnvOverrides, Overridden
<1> DEFINE item(j) == [override |-> j \in over, hasValue |-> j \in over \/ HasContent(db[j]),
                       value |-> IF db[j] = NoRow THEN Default ELSE db[j]]
           shown == [set |-> item(k).hasValue,
                     value |-> IF item(k).override THEN env[k] ELSE item(k).value]
<1>3. GetGroup(g) = [j \in KeysOf(g) |-> item(j)]
  BY DEF GetGroup
<1>4. /\ item(k).override <=> k \in over
      /\ item(k).hasValue <=> (k \in over \/ HasContent(db[k]))
      /\ item(k).value = IF db[k] = NoRow THEN Default ELSE db[k]
  BY Zenon
<1> HIDE DEF over, item
<1>5. GetGroup(g)[k] = item(k)
  BY <1>1, <1>3
<1>6. Shown(k) = shown
  BY <1>5 DEF Shown
<1>7. /\ shown.set <=> item(k).hasValue
      /\ shown.value = IF item(k).override THEN env[k] ELSE item(k).value
  BY Zenon
<1> HIDE DEF shown
<1>8. HasContent(db[k]) => db[k] # NoRow
  BY DEF HasContent
<1> QED BY <1>2, <1>4, <1>6, <1>7, <1>8

(* What a page shows of a key now, and the file, leave this value. *)
LEMMA InForceNow ==
  ASSUME NEW k \in Keys, NEW v,
         IF Overridden(k) THEN v = env[k]
         ELSE IF HasContent(db[k]) THEN v = db[k] ELSE v = file[k]
  PROVE  v = IF Shown(k).set THEN Shown(k).value ELSE file[k]
  BY ShownIs

LEMMA ObserveAdds ==
  ASSUME LoadsSound, Observe
  PROVE  /\ DOMAIN since' = Loaders
         /\ \A l \in Loaders : /\ DOMAIN since'[l] = Sourced
                               /\ \A k \in Sourced : since[l][k] \subseteq since'[l][k]
         /\ \A l \in Loaders, k \in Sourced : load'[l].pc = "read" => Shown(k)' \in since'[l][k]
<1> DEFINE s(k) == Shown(k)'
           more(l) == [k \in Sourced |-> since[l][k] \cup {s(k)}]
           new(l) == IF load'[l].pc = "read" THEN more(l) ELSE since[l]
<1>1. since' = [l \in Loaders |-> new(l)]
  BY DEF Observe
<1> HIDE DEF s
<1>2. \A l \in Loaders : DOMAIN more(l) = Sourced /\ \A k \in Sourced : more(l)[k] = since[l][k] \cup {s(k)}
  OBVIOUS
<1> HIDE DEF more
<1>3. \A l \in Loaders : DOMAIN new(l) = Sourced /\ \A k \in Sourced : since[l][k] \subseteq new(l)[k]
  BY <1>2 DEF LoadsSound
<1>4. \A l \in Loaders, k \in Sourced : load'[l].pc = "read" => s(k) \in new(l)[k]
  BY <1>2
<1> HIDE DEF new
<1> QED BY <1>1, <1>3, <1>4 DEF s

(* A load that does not move keeps what it has, whatever the page shows next. *)
LEMMA LoadKeeps ==
  ASSUME NEW l \in Loaders, LoadHolds(l), UNCHANGED <<env, file>>, load'[l] = load[l],
         \A k \in Sourced : since[l][k] \subseteq since'[l][k]
  PROVE  LoadHolds(l)'
<1>1. \A k \in Sourced : \A v : AsShown(l, k, v) => AsShown(l, k, v)'
  BY DEF AsShown
<1> QED BY <1>1 DEF LoadHolds, Record, GroupRead, Final

LEMMA OneGroupRead ==
  ASSUME LoadsSound, NEW l \in Loaders, loadRuntime(l), Observe
  PROVE  LoadHolds(l)'
<1> DEFINE r == load[l]
           full == {k \in KeysOf(Groups[r.group]) : HasContent(db[k])}
           ks == full \cap Sourced
           over == [k \in Keys |-> IF k \in ks THEN db[k] ELSE r.raw[k]]
<1>1. /\ LoadHolds(l) /\ Record(r) /\ r.group \in Nat /\ r.group >= 1 /\ r.pc = "read" /\ l \in DOMAIN load
      /\ r.group <= Len(Groups) /\ UNCHANGED <<db, env, file>>
  BY DEF LoadsSound, LoadHolds, loadRuntime, deployVars
<1>2. CASE load' = [load EXCEPT ![l].pc = "failed"]
  <2>1. load'[l].pc = "failed" /\ Record(load'[l]) /\ load'[l].group \in Nat
        /\ load'[l].group >= 1
    BY <1>1, <1>2 DEF Record
  <2> QED BY <2>1 DEF LoadHolds
<1>3. CASE load' = [load EXCEPT ![l].group = @ + 1, ![l].raw = over,
                                ![l].dbHas = @ \cup (full \cap (Seeded \cup Secret)),
                                ![l].configured = @ \cup ks]
  <2>1. /\ load'[l].pc = "read" /\ load'[l].group = r.group + 1 /\ load'[l].raw = over
        /\ load'[l].dbHas = r.dbHas \cup (full \cap (Seeded \cup Secret)) /\ Record(load'[l])
    <3> HIDE DEF over, ks, full
    <3> QED BY <1>1, <1>3 DEF Record
  <2>2. DOMAIN over = Keys /\ \A k \in Keys : over[k] = IF k \in ks THEN db[k] ELSE r.raw[k]
    OBVIOUS
  <2> HIDE DEF over
  <2>3. Len(Groups) \in Nat /\ r.group \in Nat /\ r.group >= 1
    BY <1>1, SettingsAssumption
  <2>4. ASSUME NEW k \in Sourced
        PROVE  /\ GroupRead(l, k)' => AsShown(l, k, Final(l, k))'
               /\ ~GroupRead(l, k)' => load'[l].raw[k] = file'[k] /\ k \notin load'[l].dbHas
    <3> DEFINE now == k \in KeysOf(Groups[r.group])
    <3>1. (now <=> Groups[r.group] = GroupOf[k]) /\ k \in Keys
      BY SettingsAssumption DEF KeysOf
    <3>2. GroupRead(l, k) => GroupRead(l, k)'
      BY <2>1, <2>3 DEF GroupRead
    <3>3. (k \in full <=> now /\ HasContent(db[k])) /\ (k \in ks <=> k \in full)
      OBVIOUS
    <3> HIDE DEF ks, full
    <3>4. Shown(k)' \in since'[l][k]
      BY <2>1, ObserveAdds
    <3>5. Shown(k)' = Shown(k)
      BY <1>1 DEF Shown, GetGroup, ActiveEnvOverrides
    <3>6. CASE k \in ks
      <4>1. Final(l, k)' = IF Overridden(k) THEN env[k] ELSE db[k]
        <5>1. load'[l].raw[k] = db[k] /\ (k \in Seeded => k \in load'[l].dbHas)
          BY <2>1, <2>2, <3>1, <3>3, <3>6
        <5> QED BY <1>1, <3>3, <3>6, <5>1 DEF Final, Overridden
      <4>2. AsShown(l, k, Final(l, k))'
        <5>1. Final(l, k)' = IF Shown(k).set THEN Shown(k).value ELSE file[k]
          BY <3>1, <3>3, <3>6, <4>1, InForceNow
        <5> QED BY <1>1, <3>4, <3>5, <5>1 DEF AsShown
      <4>3. GroupRead(l, k)'
        BY <1>1, <2>1, <2>3, <3>1, <3>3, <3>6 DEF GroupRead
      <4> QED BY <4>2, <4>3
    <3>7. CASE k \notin ks
      <4>1. load'[l].raw[k] = r.raw[k] /\ (k \in load'[l].dbHas <=> k \in r.dbHas)
        BY <2>1, <2>2, <3>1, <3>3, <3>7
      <4>2. CASE GroupRead(l, k)
        <5>1. Final(l, k)' = Final(l, k)
          BY <1>1, <4>1 DEF Final
        <5>2. AsShown(l, k, Final(l, k)) /\ since[l][k] \subseteq since'[l][k]
          BY <1>1, <4>2, ObserveAdds DEF LoadHolds
        <5>3. AsShown(l, k, Final(l, k))'
          BY <1>1, <5>1, <5>2 DEF AsShown
        <5> QED BY <3>2, <4>2, <5>3
      <4>3. CASE ~GroupRead(l, k)
        <5>1. r.raw[k] = file[k] /\ k \notin r.dbHas
          BY <1>1, <4>3 DEF LoadHolds
        <5>2. CASE now
          <6>1. ~HasContent(db[k])
            BY <3>3, <3>7, <5>2
          <6>2. Final(l, k)' = IF Overridden(k) THEN env[k] ELSE file[k]
            BY <1>1, <4>1, <5>1, <6>1 DEF Final, Overridden
          <6>3. AsShown(l, k, Final(l, k))'
            <7>1. Final(l, k)' = IF Shown(k).set THEN Shown(k).value ELSE file[k]
              BY <3>1, <6>1, <6>2, InForceNow
            <7> QED BY <1>1, <3>4, <3>5, <7>1 DEF AsShown
          <6> QED BY <1>1, <4>1, <5>1, <6>3
        <5>3. CASE ~now
          <6>1. ~GroupRead(l, k)'
            BY <2>1, <2>3, <3>1, <4>3, <5>3 DEF GroupRead
          <6> QED BY <1>1, <4>1, <5>1, <6>1
        <5> QED BY <5>2, <5>3
      <4> QED BY <4>2, <4>3
    <3> QED BY <3>6, <3>7
  <2> QED BY <1>1, <2>1, <2>2, <2>3, <2>4 DEF LoadHolds
<1> QED BY <1>2, <1>3 DEF loadRuntime

LEMMA LoadEnds ==
  ASSUME LoadsSound, NEW l \in Loaders, EndLoad(l), Observe
  PROVE  LoadHolds(l)'
<1> DEFINE r == load[l]
           over == envOverrideValues(l)
           given == [k \in Keys |-> IF k \in over \cap Sourced THEN env[k] ELSE r.raw[k]]
<1>1. /\ LoadHolds(l) /\ Record(r) /\ r.group \in Nat /\ r.group >= 1 /\ r.pc = "read"
      /\ l \in DOMAIN load /\ r.group > Len(Groups)
  BY DEF LoadsSound, LoadHolds, EndLoad
<1>2. /\ load'[l].pc \in {"loaded", "unconfigured"} /\ load'[l].group = r.group
      /\ load'[l].raw = given /\ Record(load'[l])
  <2> DEFINE configured == r.configured \cup over
  <2>1. \E pc \in {"loaded", "unconfigured"} :
          load' = [load EXCEPT ![l].raw = given, ![l].configured = configured, ![l].pc = pc]
    <3> HIDE DEF over, given, configured
    <3>1. load' = [load EXCEPT ![l].raw = given, ![l].configured = configured,
                               ![l].pc = IF modelExplicitlyConfigured(given, configured)
                                         THEN "loaded" ELSE "unconfigured"]
      BY DEF EndLoad, given, configured, over
    <3> QED BY <3>1
  <2> HIDE DEF over, given, configured
  <2>2. PICK pc \in {"loaded", "unconfigured"} :
          load' = [load EXCEPT ![l].raw = given, ![l].configured = configured, ![l].pc = pc]
    BY <2>1
  <2>3. load'[l] = [[[r EXCEPT !.raw = given] EXCEPT !.configured = configured] EXCEPT !.pc = pc]
    BY <1>1, <2>2
  <2> HIDE DEF r
  <2>4. load'[l] = [pc |-> pc, group |-> r.group, raw |-> given, dbHas |-> r.dbHas,
                    configured |-> configured]
    BY <1>1, <2>3 DEF Record
  <2> QED BY <2>4 DEF Record
<1>3. ASSUME NEW k \in Sourced
      PROVE  AsShown(l, k, load[l].raw[k])'
  <2>1. k \in Keys /\ GroupRead(l, k)
    BY <1>1, SettingsAssumption DEF GroupRead, ToSet
  <2>2. given[k] = Final(l, k)
    BY <2>1 DEF Final, envOverrideValues
  <2>3. AsShown(l, k, Final(l, k)) /\ file' = file
    BY <1>1, <2>1 DEF LoadHolds, EndLoad, deployVars
  <2>4. load'[l].raw[k] = Final(l, k)
    BY <1>2, <2>2
  <2>5. since[l][k] \subseteq since'[l][k]
    BY ObserveAdds
  <2> QED BY <2>3, <2>4, <2>5 DEF AsShown
<1> HIDE DEF given
<1> QED BY <1>1, <1>2, <1>3 DEF LoadHolds

LEMMA LoadBegins ==
  ASSUME LoadsSound, NEW l \in Loaders, BeginLoad(l)
  PROVE  LoadsSound'
<1> DEFINE first == [IdleLoad EXCEPT !.pc = "read", !.raw = file]
           shown == [k \in Sourced |-> {Shown(k)}]
<1>1. /\ load' = [load EXCEPT ![l] = first] /\ since' = [since EXCEPT ![l] = shown]
      /\ UNCHANGED <<env, file>>
  BY DEF BeginLoad, deployVars
<1>2. /\ first.pc = "read" /\ first.group = 1 /\ first.raw = file /\ first.dbHas = {}
      /\ Record(first) /\ DOMAIN shown = Sourced
  <2>1. first = [pc |-> "read", group |-> 1, raw |-> file, dbHas |-> {}, configured |-> {}]
    <3> DEFINE of(pc, raw, none) ==
                 [pc |-> pc, group |-> 1, raw |-> raw, dbHas |-> none, configured |-> none]
    <3>1. ASSUME NEW x, NEW none
          PROVE  [of("idle", x, none) EXCEPT !.pc = "read"] = of("read", x, none)
      OBVIOUS
    <3>2. ASSUME NEW x, NEW y, NEW none
          PROVE  [of("read", x, none) EXCEPT !.raw = y] = of("read", y, none)
      OBVIOUS
    <3>3. IdleLoad = of("idle", <<>>, {})
      BY DEF IdleLoad
    <3>4. [IdleLoad EXCEPT !.pc = "read"] = of("read", <<>>, {})
      <4>1. [of("idle", <<>>, {}) EXCEPT !.pc = "read"] = of("read", <<>>, {})
        BY <3>1
      <4> QED BY Zenon, <3>3, <4>1
    <3>5. first = [[IdleLoad EXCEPT !.pc = "read"] EXCEPT !.raw = file]
      OBVIOUS
    <3> HIDE DEF of
    <3>6. first = [of("read", <<>>, {}) EXCEPT !.raw = file]
      BY Zenon, <3>4, <3>5
    <3>7. first = of("read", file, {})
      <4>1. [of("read", <<>>, {}) EXCEPT !.raw = file] = of("read", file, {})
        BY <3>2
      <4> HIDE DEF first
      <4> QED BY <3>6, <4>1
    <3> QED BY <3>7 DEF of
  <2> HIDE DEF first
  <2> DEFINE one(k) == {Shown(k)}
  <2>2. shown = [k \in Sourced |-> one(k)]
    OBVIOUS
  <2> HIDE DEF one, shown
  <2> QED BY <2>1, <2>2 DEF Record
<1> HIDE DEF first, shown
<1>3. /\ DOMAIN load' = Loaders /\ DOMAIN since' = Loaders /\ DOMAIN file' = Keys
      /\ load'[l] = first /\ since'[l] = shown
      /\ \A m \in Loaders \ {l} : load'[m] = load[m] /\ since'[m] = since[m]
  BY <1>1 DEF LoadsSound
<1>4. LoadHolds(l)'
  <2>1. \A k \in Sourced : ~GroupRead(l, k)'
    BY <1>2, <1>3, SettingsAssumption DEF GroupRead
  <2> QED BY <1>1, <1>2, <1>3, <2>1, SettingsAssumption DEF LoadHolds, LoadsSound
<1>5. \A m \in Loaders \ {l} : LoadHolds(m)'
  BY <1>1, <1>3, LoadKeeps DEF LoadsSound
<1> QED BY <1>2, <1>3, <1>4, <1>5 DEF LoadsSound

LEMMA OneLoadMoves ==
  ASSUME LoadsSound, NEW l \in Loaders, Loading(l), Observe
  PROVE  LoadsSound'
<1>1. UNCHANGED <<env, file>> /\ DOMAIN load' = Loaders
      /\ \A m \in Loaders \ {l} : load'[m] = load[m]
  BY DEF LoadsSound, Loading, loadRuntime, EndLoad, LoadFails, deployVars
<1>2. LoadHolds(l)'
  <2>1. CASE LoadFails(l)
    <3>1. Record(load[l]) /\ load[l].group \in Nat /\ load[l].group >= 1 /\ l \in DOMAIN load
      BY DEF LoadsSound, LoadHolds
    <3>2. load'[l].pc = "failed" /\ Record(load'[l]) /\ load'[l].group = load[l].group
      BY <2>1, <3>1 DEF LoadFails, Record
    <3> QED BY <3>1, <3>2 DEF LoadHolds
  <2> QED BY <2>1, OneGroupRead, LoadEnds DEF Loading
<1>3. \A m \in Loaders \ {l} : LoadHolds(m)'
  BY <1>1, LoadKeeps, ObserveAdds DEF LoadsSound
<1> QED BY <1>1, <1>2, <1>3, ObserveAdds DEF LoadsSound

LEMMA LoadsStand ==
  ASSUME LoadsSound, UNCHANGED <<load, env, file>>,
         UNCHANGED since \/ Observe
  PROVE  LoadsSound'
<1>1. /\ DOMAIN since' = Loaders
      /\ \A l \in Loaders : /\ DOMAIN since'[l] = Sourced
                            /\ \A k \in Sourced : since[l][k] \subseteq since'[l][k]
  BY ObserveAdds DEF LoadsSound
<1> QED BY <1>1, LoadKeeps DEF LoadsSound

LEMMA LoadsSoundStep ==
  ASSUME LoadsSound, Next
  PROVE  LoadsSound'
<1>1. ASSUME NEW s \in Savers, Saving(s), Observe
      PROVE  LoadsSound'
  <2>1. UNCHANGED <<load, env, file>>
    BY <1>1 DEF Saving, PatchGroup, ReadOverrides, SaveKey, EndSave, SaveFails, deployVars
  <2> QED BY <1>1, <2>1, LoadsStand
<1>2. ASSUME NEW l \in Loaders, BeginLoad(l) \/ (Loading(l) /\ Observe)
      PROVE  LoadsSound'
  BY <1>2, LoadBegins, OneLoadMoves
<1>3. CASE (Migrate \/ Import \/ RunFails) /\ Observe
  <2>1. UNCHANGED <<load, env, file>>
    BY <1>3 DEF Migrate, Import, RunFails, ImportKey, MarkConfig, LookForSessions,
       knownSessions, ImportSession, MarkSessions, LookForAudit, importAuditLine, GiveUpAudit,
       MarkAudit, AuditRead, ImportSkills, EndRun, settingsVars, deployVars
  <2> QED BY <1>3, <2>1, LoadsStand
<1>4. ASSUME NEW f \in ToSet(SessionFiles), DeleteSession(f)
      PROVE  LoadsSound'
  BY <1>4, LoadsStand DEF DeleteSession, settingsVars, deployVars
<1> QED BY <1>1, <1>2, <1>3, <1>4 DEF Next, SettingsNext

(* A load that ends has given each key a value that its page showed as set at
   some moment since the load began, or config.yaml's where at some such moment
   the page called it not set. *)
THEOREM Loaded == Spec => []SetIsLoaded
<1>1. Init => LoadsSound
  BY DEF Init, SettingsInit, IdleLoad, LoadsSound, LoadHolds, Record
<1>2. LoadsSound /\ [Next]_vars => LoadsSound'
  <2>1. CASE UNCHANGED vars
    BY <2>1, LoadsStand DEF vars, settingsVars, deployVars
  <2> QED BY <2>1, LoadsSoundStep
<1>3. LoadsSound => SetIsLoaded
  BY DEF LoadsSound, LoadHolds, AsShown, SetIsLoaded
<1> QED BY <1>1, <1>2, <1>3, PTL DEF Spec

=============================================================================
