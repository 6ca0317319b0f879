---------------------------- MODULE LegacyImport ----------------------------
(***************************************************************************)
(* The import of a third-generation installation (internal/service         *)
(* migrate.go, `k8s-ai migrate`): config.yaml into the configuration       *)
(* centre, session files, audit files line by line, the built-in skills.   *)
(* It is run by hand, dies or fails anywhere, and is run again; markers in *)
(* the settings table say what an earlier run has finished.  The platform  *)
(* serves meanwhile: pages are saved, runs load their configuration, users *)
(* delete sessions.                                                        *)
(***************************************************************************)
EXTENDS Settings

CONSTANTS
  CatalogOrder, \* the keys, in the order of the catalogue
  SessionFiles, \* the session files, in the order of the directory
  AuditFiles,   \* the audit files likewise
  Lines,        \* the lines an audit file may have
  MaxRuns       \* bound: runs begun

(* Markers of audit files are named after their paths.                     *)
ASSUME LegacyAssumption ==
  /\ SessionFiles \in Seq(ToSet(SessionFiles)) /\ AuditFiles \in Seq(ToSet(AuditFiles))
  /\ Lines \subseteq Seq(BOOLEAN)
  /\ ToSet(AuditFiles) \cap {"config", "sessions", "skills"} = {}

VARIABLES
  readable, \* the session files that parse
  content,  \* the lines of each audit file, TRUE for one that parses
  sessions, \* session rows, by the file they would come from
  copies,   \* audit rows, by file and line
  skills,   \* the built-in skills are stored
  marks,    \* the markers of finished parts
  run,      \* the run: its step and what it has counted
  ever,     \* history: sessions that have been stored
  clean,    \* history: a run got through the sessions without a loss
  cut,      \* history: the audit files a run was cut short in
  gaveUp,   \* history: the audit files a run could not read through
  runs

filesVars == <<readable, content>>
rowsVars == <<sessions, copies, skills, marks>>
historyVars == <<ever, clean, cut, gaveUp>>
importVars == <<filesVars, rowsVars, run, historyVars, runs>>
vars == <<settingsVars, importVars>>

IdleRun == [pc |-> "idle", at |-> 1, line |-> 1, force |-> FALSE, known |-> {},
            lost |-> {}]

Init ==
  /\ SettingsInit
  /\ readable \in SUBSET ToSet(SessionFiles)
  /\ content \in [ToSet(AuditFiles) -> Lines]
  /\ sessions = {} /\ skills = FALSE /\ marks = {}
  /\ copies = [f \in ToSet(AuditFiles) |-> [n \in DOMAIN content[f] |-> 0]]
  /\ run = IdleRun /\ ever = {} /\ clean = FALSE /\ cut = {}
  /\ gaveUp = {} /\ runs = 0

To(pc) == [run EXCEPT !.pc = pc, !.at = 1, !.line = 1]

(* A run starts once the schema is in place; --force is the operator's.    *)
Migrate ==
  /\ run.pc \in {"idle", "failed", "done"} /\ runs < MaxRuns
  /\ \E force \in BOOLEAN : run' = [IdleRun EXCEPT !.pc = "config", !.force = force]
  /\ runs' = runs + 1
  /\ UNCHANGED <<settingsVars, filesVars, rowsVars, historyVars>>

(* ImportConfig passes over a key without a place in config.yaml, a value  *)
(* that no rule accepts, and the catalogue's default.                      *)
ToImport(k) == k \in Sourced /\ file[k] \notin {Bad, Default}

(* Any other overwrites its row, whatever a page has saved there; a        *)
(* sensitive one needs the cipher.                                         *)
ImportKey ==
  /\ run.pc = "config" /\ run.at <= Len(CatalogOrder)
  /\ LET k == CatalogOrder[run.at]
     IN  IF ~ToImport(k)
         THEN run' = [run EXCEPT !.at = @ + 1] /\ UNCHANGED db
         ELSE IF k \in Sensitive /\ ~cipher
         THEN run' = [run EXCEPT !.pc = "failed"] /\ UNCHANGED db
         ELSE run' = [run EXCEPT !.at = @ + 1] /\ db' = [db EXCEPT ![k] = file[k]]
  /\ UNCHANGED <<deployVars, save, load, saves, loads, faults, filesVars, rowsVars,
                 historyVars, runs>>

MarkConfig ==
  /\ run.pc = "config" /\ run.at > Len(CatalogOrder)
  /\ marks' = marks \cup {"config"} /\ run' = To("sessions")
  /\ UNCHANGED <<settingsVars, filesVars, sessions, copies, skills, historyVars, runs>>

---------------------------------------------------------------------------
(* Sessions: once for the directory, unless forced.                        *)

(* Mutant: the marker is not looked up. *)
SessionsNeverDone == FALSE

SessionsDone == "sessions" \in marks

LookForSessions ==
  /\ run.pc = "sessions"
  /\ run' = IF ~run.force /\ SessionsDone THEN To("audit") ELSE To("known")
  /\ UNCHANGED <<settingsVars, filesVars, rowsVars, historyVars, runs>>

knownSessions ==
  /\ run.pc = "known"
  /\ run' = [To("files") EXCEPT !.known = sessions]
  /\ UNCHANGED <<settingsVars, filesVars, rowsVars, historyVars, runs>>

(* One file: it does not parse, is known, is stored, is found stored by    *)
(* the unique id, or is lost to a failing store.                           *)
ImportSession ==
  /\ run.pc = "files" /\ run.at <= Len(SessionFiles)
  /\ LET f == SessionFiles[run.at]
         next == [run EXCEPT !.at = @ + 1]
     IN  \/ /\ f \notin readable
            /\ run' = [next EXCEPT !.lost = @ \cup {f}]
            /\ UNCHANGED <<sessions, ever, faults>>
         \/ /\ f \in readable /\ f \in run.known
            /\ run' = next /\ UNCHANGED <<sessions, ever, faults>>
         \/ /\ f \in readable \ run.known
            /\ sessions' = sessions \cup {f} /\ ever' = ever \cup {f}
            /\ run' = [next EXCEPT !.known = @ \cup {f}] /\ UNCHANGED faults
         \/ /\ f \in readable \ run.known /\ faults < MaxFaults
            /\ faults' = faults + 1
            /\ run' = [next EXCEPT !.lost = @ \cup {f}] /\ UNCHANGED <<sessions, ever>>
  /\ UNCHANGED <<db, deployVars, save, load, saves, loads, filesVars, copies, skills,
                 marks, clean, cut, gaveUp, runs>>

(* Mutant: the directory is marked whatever was lost. *)
SessionsWhole == TRUE

NothingLost == run.lost = {}

MarkSessions ==
  /\ run.pc = "files" /\ run.at > Len(SessionFiles)
  /\ marks' = IF NothingLost THEN marks \cup {"sessions"} ELSE marks
  /\ clean' = (clean \/ run.lost = {})
  /\ run' = To("audit")
  /\ UNCHANGED <<settingsVars, filesVars, sessions, copies, skills, ever, cut, gaveUp, runs>>

(* Users delete sessions; one that is gone stays gone.                     *)
DeleteSession(f) ==
  /\ f \in sessions /\ sessions' = sessions \ {f}
  /\ UNCHANGED <<settingsVars, filesVars, copies, skills, marks, run, historyVars, runs>>

---------------------------------------------------------------------------
(* Audit files: a row has nothing unique, so a file is marked when it has  *)
(* been read through, and a marked one is passed over.                     *)

LookForAudit ==
  /\ run.pc = "audit" /\ run.at <= Len(AuditFiles)
  /\ run' = IF AuditFiles[run.at] \in marks THEN [run EXCEPT !.at = @ + 1]
                                            ELSE [run EXCEPT !.pc = "lines"]
  /\ UNCHANGED <<settingsVars, filesVars, rowsVars, historyVars, runs>>

(* A line: one that does not parse is counted and passed over.             *)
importAuditLine ==
  /\ run.pc = "lines" /\ run.line <= Len(content[AuditFiles[run.at]])
  /\ LET f == AuditFiles[run.at]
     IN  copies' = [copies EXCEPT ![f][run.line] = IF content[f][run.line] THEN @ + 1 ELSE @]
  /\ run' = [run EXCEPT !.line = @ + 1]
  /\ UNCHANGED <<settingsVars, filesVars, sessions, skills, marks, historyVars, runs>>

(* The file cannot be opened, or a line is longer than the scanner takes:  *)
(* it is reported, and marked like one that has been read.                 *)
GiveUpAudit ==
  /\ run.pc = "lines" /\ run.line <= Len(content[AuditFiles[run.at]])
  /\ LET f == AuditFiles[run.at]
     IN  /\ run' = [run EXCEPT !.line = Len(content[f]) + 1, !.lost = @ \cup {f}]
         /\ gaveUp' = gaveUp \cup {f}
  /\ UNCHANGED <<settingsVars, filesVars, rowsVars, ever, clean, cut, runs>>

(* Mutant: a file with lines that do not parse is left unmarked. *)
MarkAuditIfGood ==
  /\ run.pc = "lines" /\ run.line > Len(content[AuditFiles[run.at]])
  /\ marks' = IF \A n \in DOMAIN content[AuditFiles[run.at]] : content[AuditFiles[run.at]][n]
              THEN marks \cup {AuditFiles[run.at]} ELSE marks
  /\ run' = [run EXCEPT !.pc = "audit", !.at = @ + 1, !.line = 1]
  /\ UNCHANGED <<settingsVars, filesVars, sessions, copies, skills, historyVars, runs>>

MarkAudit ==
  /\ run.pc = "lines" /\ run.line > Len(content[AuditFiles[run.at]])
  /\ marks' = marks \cup {AuditFiles[run.at]}
  /\ run' = [run EXCEPT !.pc = "audit", !.at = @ + 1, !.line = 1]
  /\ UNCHANGED <<settingsVars, filesVars, sessions, copies, skills, historyVars, runs>>

AuditRead ==
  /\ run.pc = "audit" /\ run.at > Len(AuditFiles)
  /\ run' = To("skills")
  /\ UNCHANGED <<settingsVars, filesVars, rowsVars, historyVars, runs>>

(* The built-in skills: upserts, so that a second time does nothing; then  *)
(* the reports, which stay where they are.                                 *)
ImportSkills ==
  /\ run.pc = "skills" /\ "skills" \notin marks /\ ~skills
  /\ skills' = TRUE
  /\ UNCHANGED <<settingsVars, filesVars, sessions, copies, marks, run, historyVars, runs>>

EndRun ==
  /\ run.pc = "skills" /\ (skills \/ "skills" \in marks)
  /\ marks' = marks \cup {"skills"} /\ run' = To("done")
  /\ UNCHANGED <<settingsVars, filesVars, sessions, copies, skills, historyVars, runs>>

(* A store call fails, or the process dies: the run ends there.            *)
RunFails ==
  /\ run.pc \notin {"idle", "failed", "done"} /\ faults < MaxFaults
  /\ run' = [run EXCEPT !.pc = "failed"] /\ faults' = faults + 1
  /\ cut' = IF run.pc = "lines" THEN cut \cup {AuditFiles[run.at]} ELSE cut
  /\ UNCHANGED <<db, deployVars, save, load, saves, loads, filesVars, rowsVars, ever,
                 clean, gaveUp, runs>>

Import == \/ ImportKey \/ MarkConfig \/ LookForSessions \/ knownSessions
          \/ ImportSession \/ MarkSessions \/ LookForAudit \/ importAuditLine
          \/ GiveUpAudit \/ MarkAudit \/ AuditRead \/ ImportSkills \/ EndRun

Next ==
  \/ SettingsNext /\ UNCHANGED importVars
  \/ (Migrate \/ Import \/ RunFails) /\ Observe
  \/ \E f \in ToSet(SessionFiles) : DeleteSession(f)

Spec == Init /\ [][Next]_vars

---------------------------------------------------------------------------
(* A run that returns without an error has brought everything over: every  *)
(* session file it does not report as lost has been stored, by it or by an *)
(* earlier run, and so has every audit line that parses, but for files a   *)
(* run gave up reading -- whatever earlier runs were cut short, and        *)
(* whatever they had marked.                                               *)
CompletedIsWhole ==
  run.pc = "done" =>
    /\ readable \subseteq ever \cup run.lost
    /\ \A f \in DOMAIN content \ gaveUp : \A n \in DOMAIN content[f] :
         content[f][n] => copies[f][n] >= 1

(* An audit line is stored a second time only where a run was cut short in *)
(* the middle of its file: running the import again adds nothing.          *)
AuditOnce ==
  \A f \in DOMAIN content : \A n \in DOMAIN content[f] :
    copies[f][n] > 1 => f \in cut

(* A session a user has deleted is not brought back by a later run once    *)
(* the directory has come over without a loss, unless the run is forced.   *)
DeletedStaysGone ==
  [][\A f \in ToSet(SessionFiles) :
       f \in (sessions' \ sessions) \cap ever => run.force \/ ~clean]_vars

(* What migrateSessions says of deletion, without the exception: a deleted *)
(* session is not brought back by a run that is not forced.                *)
(* The code does not keep this (README, section 4).                        *)
DeletedIsFinal ==
  [][\A f \in ToSet(SessionFiles) :
       f \in (sessions' \ sessions) \cap ever => run.force]_vars
=============================================================================
