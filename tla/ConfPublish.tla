------------------------------ MODULE ConfPublish ------------------------------
(***************************************************************************)
(* How a row of the application table becomes nginx configuration.         *)
(*                                                                         *)
(* Admin calls and starting backends render the whole table into files of  *)
(* a shared volume: written under one name, renamed to a staged one.  In   *)
(* the nginx container a loop installs what is staged, has nginx test it,  *)
(* and rolls back what nginx refuses.  Nobody holds a lock.                *)
(*                                                                         *)
(* A file is its content under a name.  A writer's handle follows the file *)
(* when the file is renamed, so a handle is the name its file has now.     *)
(***************************************************************************)
EXTENDS Naturals, Sequences

CONSTANTS
  Publisher,  \* calls of publish_conf that may run at once
  Bad,        \* versions of the table whose rendering nginx refuses
  Absent, Empty, Mixed, \* a name without a file; a file without a byte; half a file, or of two
  MaxVersion, \* bound: how often the table is changed
  MaxRestart  \* bound: how often the nginx container is restarted

Version == 0..MaxVersion

ASSUME ConfAssumption ==
  /\ MaxVersion \in Nat /\ MaxRestart \in Nat
  /\ Publisher # {}
  /\ Bad \subseteq Version \ {0}
  /\ Absent \notin Version /\ Empty \notin Version /\ Mixed \notin Version
  /\ Absent # Empty /\ Absent # Mixed /\ Empty # Mixed

File    == {"apps.conf", "breakglass.apps"}
Place   == {"writing", "staged", "live", "bak"}

\* A version stands for its rendering.
Content == Version \cup {Absent, Empty, Mixed}

VARIABLES
  db,         \* the version of the table
  file,       \* the content under each name, for each file
  pub,        \* the calls of publish_conf
  reloader,   \* the reload loop
  signalled,  \* nginx has been told to reload and has not read the file yet
  nginx,      \* the nginx process and the apps.conf it has read
  restarts,   \* restarts of the nginx container so far
  cut,        \* history: a start of nginx fell between an install and its verdict
  shared,     \* history: two calls wrote to one name at once
  overtaken   \* history: a version was staged over a later one

history == <<cut, shared, overtaken>>
vars == <<db, file, pub, reloader, signalled, nginx, restarts, history>>

Name(n) == IF n = 1 THEN "apps.conf" ELSE "breakglass.apps"

PubPc    == {"idle", "read", "open", "write", "rename"}
Pub      == [pc : PubPc, rows : Version, nth : 1..2, handle : Place \cup {"none"}, ok : BOOLEAN]
Nginx    == [run : {"starting", "reading", "up", "down"}, conf : Content]
Reloader == [pc : {"look", "backup", "install", "test", "clean"}, nth : 1..2]

Idle(ok) == [pc |-> "idle", rows |-> 0, nth |-> 1, handle |-> "none", ok |-> ok]

Types ==
  /\ db \in Version
  /\ file \in [File -> [Place -> Content]]
  /\ pub \in [Publisher -> Pub]
  /\ reloader \in Reloader
  /\ signalled \in BOOLEAN
  /\ nginx \in Nginx
  /\ restarts \in 0..MaxRestart
  /\ cut \in BOOLEAN /\ shared \in BOOLEAN /\ overtaken \in BOOLEAN

\* Version 0 is installed and runs; or the volume is new, and nginx runs without.
Init ==
  /\ db = 0
  /\ \E first \in {0, Absent} :
       /\ file = [f \in File |-> [p \in Place |-> IF p = "live" THEN first ELSE Absent]]
       /\ pub = [p \in Publisher |-> Idle(first = 0)]
       /\ nginx = [run |-> "up", conf |-> first]
  /\ reloader = [pc |-> "look", nth |-> 1]
  /\ signalled = FALSE
  /\ restarts = 0
  /\ cut = FALSE /\ shared = FALSE /\ overtaken = FALSE

-----------------------------------------------------------------------------
\* nginx -t.  A file with no block in it parses.
Parses(c) == c \in {Absent, Empty} \cup (Version \ Bad)

\* The handles on file f after the file under one name was renamed to another:
\* they follow it, and what was under the new name is out of every directory.
Follow(f, from, to) ==
  [p \in Publisher |->
    IF pub[p].pc \in {"write", "rename"} /\ Name(pub[p].nth) = f
    THEN [pub[p] EXCEPT !.handle = IF @ = from THEN to ELSE IF @ = to THEN "none" ELSE @]
    ELSE pub[p]]

Moved(f, from, to) == [file EXCEPT ![f][to] = file[f][from], ![f][from] = Absent]

-----------------------------------------------------------------------------
(* publish_conf.                                                           *)

\* A handler commits a row and goes on to publish.
Change(p) ==
  /\ pub[p].pc = "idle"
  /\ db < MaxVersion
  /\ db' = db + 1
  /\ pub' = [pub EXCEPT ![p].pc = "read", ![p].ok = FALSE]
  /\ UNCHANGED <<file, reloader, signalled, nginx, restarts, history>>

\* A backend starts and publishes the table it finds.
Republish(p) ==
  /\ pub[p].pc = "idle"
  /\ pub' = [pub EXCEPT ![p].pc = "read"]
  /\ UNCHANGED <<db, file, reloader, signalled, nginx, restarts, history>>

ReadRows(p) ==
  /\ pub[p].pc = "read"
  /\ pub' = [pub EXCEPT ![p].pc = "open", ![p].rows = db, ![p].nth = 1]
  /\ UNCHANGED <<db, file, reloader, signalled, nginx, restarts, history>>

\* (Deviation: written under the staged name itself.)
OpenStaged(p) ==
  /\ pub[p].pc = "open"
  /\ file' = [file EXCEPT ![Name(pub[p].nth)]["staged"] = Empty]
  /\ pub' = [pub EXCEPT ![p].pc = "write", ![p].handle = "staged"]
  /\ UNCHANGED <<db, reloader, signalled, nginx, restarts, history>>

\* The first half of fs::write: created, or truncated if somebody has it.
OpenFile(p) ==
  /\ pub[p].pc = "open"
  /\ file' = [file EXCEPT ![Name(pub[p].nth)]["writing"] = Empty]
  /\ pub' = [pub EXCEPT ![p].pc = "write", ![p].handle = "writing"]
  /\ shared' = (shared \/ \E q \in Publisher \ {p} :
                             pub[q].pc \in {"write", "rename"} /\ pub[q].nth = pub[p].nth)
  /\ UNCHANGED <<db, reloader, signalled, nginx, restarts, cut, overtaken>>

\* The second half: the body, from offset 0, wherever the file is by now.
\* Over another's body the longer one shows through.
WriteFile(p) ==
  LET f == Name(pub[p].nth)
      h == pub[p].handle
      v == pub[p].rows
  IN
  /\ pub[p].pc = "write"
  /\ IF h = "none" THEN UNCHANGED file
     ELSE \E c \in {v} \cup (IF file[f][h] \in {Empty, v} THEN {} ELSE {Mixed}) :
            file' = [file EXCEPT ![f][h] = c]
  /\ pub' = [pub EXCEPT ![p].pc = "rename", ![p].handle = "none"]
  /\ UNCHANGED <<db, reloader, signalled, nginx, restarts, history>>

\* rename.  The first file is followed by the second, and the second by the
\* answer "staged".
RenameFile(p) ==
  LET f == Name(pub[p].nth) IN
  /\ pub[p].pc = "rename"
  /\ file[f]["writing"] # Absent
  /\ file' = Moved(f, "writing", "staged")
  /\ pub' = [Follow(f, "writing", "staged") EXCEPT
               ![p] = IF pub[p].nth = 2 THEN Idle(TRUE)
                      ELSE [pub[p] EXCEPT !.pc = "open", !.nth = 2]]
  /\ overtaken' = (overtaken \/ \E c \in {file[f]["staged"], file[f]["live"]} \cap Version :
                                  file[f]["writing"] \in Version /\ c > file[f]["writing"])
  /\ UNCHANGED <<db, reloader, signalled, nginx, restarts, cut, shared>>

\* (Deviation: the result of the second stage is not looked at.)
PublishFailsSilently(p) ==
  /\ pub[p].pc # "idle"
  /\ pub' = [pub EXCEPT ![p] = Idle(@.ok \/ @.nth = 2)]
  /\ UNCHANGED <<db, file, reloader, signalled, nginx, restarts, history>>

\* A step failed -- a rename whose file is gone always does -- or the backend
\* died.  What is on disk stays, part of a body included.
PublishFails(p) ==
  LET f == Name(pub[p].nth)
      h == pub[p].handle
  IN
  /\ pub[p].pc # "idle"
  /\ \/ UNCHANGED file
     \/ /\ pub[p].pc = "write" /\ h # "none"
        /\ file' = [file EXCEPT ![f][h] = Mixed]
  /\ pub' = [pub EXCEPT ![p] = Idle(@.ok)]
  /\ UNCHANGED <<db, reloader, signalled, nginx, restarts, history>>

-----------------------------------------------------------------------------
(* install_staged, for one file after the other.                           *)
Up   == nginx.run # "down"
This == Name(reloader.nth)

Turn == [pc |-> "look", nth |-> 3 - reloader.nth]

\* (Deviation: does not look.)
LookBlind ==
  /\ Up /\ reloader.pc = "look"
  /\ reloader' = [reloader EXCEPT !.pc = "backup"]
  /\ UNCHANGED <<db, file, pub, signalled, nginx, restarts, history>>

\* (Deviation: nothing staged under the first name ends the round.)
LookAgain ==
  /\ Up /\ reloader.pc = "look"
  /\ file[This]["staged"] # Absent
  /\ reloader' = [reloader EXCEPT !.pc = "backup"]
  /\ UNCHANGED <<db, file, pub, signalled, nginx, restarts, history>>

Look ==
  /\ Up /\ reloader.pc = "look"
  /\ reloader' = IF file[This]["staged"] = Absent THEN Turn
                 ELSE [reloader EXCEPT !.pc = "backup"]
  /\ UNCHANGED <<db, file, pub, signalled, nginx, restarts, history>>

Backup ==
  /\ Up /\ reloader.pc = "backup"
  /\ file' = IF file[This]["live"] = Absent THEN file
             ELSE [file EXCEPT ![This]["bak"] = file[This]["live"]]
  /\ reloader' = [reloader EXCEPT !.pc = "install"]
  /\ UNCHANGED <<db, pub, signalled, nginx, restarts, history>>

Install ==
  /\ Up /\ reloader.pc = "install"
  /\ file' = Moved(This, "staged", "live")
  /\ pub' = Follow(This, "staged", "live")
  /\ reloader' = [reloader EXCEPT !.pc = "test"]
  /\ UNCHANGED <<db, signalled, nginx, restarts, history>>

\* Accepted: nginx is told to reload, if it is the file it runs on.  One that is
\* not up yet has no process to tell.
Accept ==
  /\ Up /\ reloader.pc = "test"
  /\ Parses(file[This]["live"])
  /\ signalled' = (signalled \/ (This = "apps.conf" /\ nginx.run = "up"))
  /\ cut' = (cut \/ (This = "apps.conf" /\ nginx.run = "reading"))
  /\ reloader' = [reloader EXCEPT !.pc = "clean"]
  /\ UNCHANGED <<db, file, pub, nginx, restarts, shared, overtaken>>

\* (Deviation: reported as refused and left in place.)
RollBackLeaves ==
  /\ Up /\ reloader.pc = "test"
  /\ ~Parses(file[This]["live"])
  /\ reloader' = [reloader EXCEPT !.pc = "clean"]
  /\ UNCHANGED <<db, file, pub, signalled, nginx, restarts, history>>

\* Refused: the previous file comes back.
RollBack ==
  /\ Up /\ reloader.pc = "test"
  /\ ~Parses(file[This]["live"])
  /\ file' = Moved(This, "bak", "live")
  /\ pub' = Follow(This, "bak", "live")
  /\ reloader' = [reloader EXCEPT !.pc = "clean"]
  /\ UNCHANGED <<db, signalled, nginx, restarts, history>>

\* (Deviation: the backup goes back whatever the verdict was.)
CleanBack ==
  /\ Up /\ reloader.pc = "clean"
  /\ file' = IF file[This]["bak"] = Absent THEN file ELSE Moved(This, "bak", "live")
  /\ reloader' = Turn
  /\ UNCHANGED <<db, pub, signalled, nginx, restarts, history>>

Clean ==
  /\ Up /\ reloader.pc = "clean"
  /\ file' = [file EXCEPT ![This]["bak"] = Absent]
  /\ reloader' = Turn
  /\ UNCHANGED <<db, pub, signalled, nginx, restarts, history>>

-----------------------------------------------------------------------------
(* nginx, and its container.                                               *)

Conf == file["apps.conf"]["live"]

\* A reload of a file that does not parse leaves nginx as it was.
Reload ==
  /\ nginx.run = "up" /\ signalled
  /\ signalled' = FALSE
  /\ nginx' = IF Parses(Conf) THEN [nginx EXCEPT !.conf = Conf] ELSE nginx
  /\ UNCHANGED <<db, file, pub, reloader, restarts, history>>

Start ==
  /\ nginx.run = "starting"
  /\ nginx' = [run |-> IF Parses(Conf) THEN "reading" ELSE "down", conf |-> Conf]
  /\ UNCHANGED <<db, file, pub, reloader, signalled, restarts, history>>

Serve ==
  /\ nginx.run = "reading"
  /\ nginx' = [nginx EXCEPT !.run = "up"]
  /\ UNCHANGED <<db, file, pub, reloader, signalled, restarts, history>>

\* The container stops wherever it is and starts again.
Restart ==
  /\ restarts < MaxRestart
  /\ restarts' = restarts + 1
  /\ nginx' = [nginx EXCEPT !.run = "starting"]
  /\ signalled' = FALSE
  /\ cut' = (cut \/ reloader.pc = "test")
  /\ reloader' = [pc |-> "look", nth |-> 1]
  /\ UNCHANGED <<db, file, pub, shared, overtaken>>

PublishNext == \E p \in Publisher :
  \/ Change(p) \/ Republish(p) \/ ReadRows(p) \/ OpenFile(p) \/ WriteFile(p)
  \/ RenameFile(p) \/ PublishFails(p)

ReloadNext == Look \/ Backup \/ Install \/ Accept \/ RollBack \/ Clean

Next == PublishNext \/ ReloadNext \/ Reload \/ Start \/ Serve \/ Restart

Spec == Init /\ [][Next]_vars

-----------------------------------------------------------------------------
\* The types of the variables; and install_staged's cp and mv have the file to move
\* that the test of its first line saw, whoever stages and fails meanwhile.
TypeOK ==
  /\ Types
  /\ reloader.pc \in {"backup", "install"} => file[This]["staged"] # Absent

\* nginx.rs stage, "the reloader can never see half a file": what nginx is
\* asked to test is a whole rendering of one version of the table.
ReloaderSeesWholeFiles ==
  reloader.pc = "test" => file[This]["live"] \in Version

\* What holds of stage's rename: it hands over whole files as long as no two
\* calls write to one name at once, whatever fails in between.
WholeUnlessShared ==
  reloader.pc = "test" => file[This]["live"] \in Version \/ shared

\* The script's header, "a generated file nginx will not parse must not be able
\* to take the proxy down at its next restart".
ProxyComesUp == nginx.run # "down"

\* What holds: the file nginx would start on parses, or is under test, or a
\* restart cut a test short, or two calls wrote to one name.
LiveParses ==
  \A f \in File : ~Parses(file[f]["live"]) =>
    (reloader.pc = "test" /\ This = f) \/ cut \/ shared

Settled ==
  /\ \A p \in Publisher : pub[p].pc = "idle" /\ pub[p].ok
  /\ \A f \in File : file[f]["staged"] = Absent
  /\ reloader = [pc |-> "look", nth |-> 1]
  /\ ~signalled /\ nginx.run = "up"

\* admin.rs publish: when every call has answered "staged" and nothing is left to
\* install, nginx runs the table as it is, and break-glass would serve the same
\* rows, though a call may have failed between the two files -- but for a call that
\* staged older rows over newer ones, two that wrote to one name, and a restart
\* inside a test.
RunsTheTableUnlessRaced ==
  Settled /\ db \notin Bad =>
    \/ nginx.conf = db /\ file["breakglass.apps"]["live"] = db
    \/ overtaken \/ shared \/ cut

\* nginx never goes back to rows older than those it runs, but for the same.
NeverBack ==
  [][({nginx.conf, nginx'.conf} \subseteq Version /\ nginx'.conf < nginx.conf) =>
       overtaken \/ shared \/ cut]_nginx

-----------------------------------------------------------------------------
(* Liveness: the loop goes round for as long as the container lives.        *)
FairSpec == Spec /\ WF_vars(ReloadNext)

\* Whatever is staged is installed or refused, unless nginx is down.
StagedIsSettled ==
  \A f \in File : file[f]["staged"] # Absent ~> file[f]["staged"] = Absent \/ nginx.run = "down"
=============================================================================
