--------------------------- MODULE ConfPublishProofs ---------------------------
(***************************************************************************)
(* Proofs about ConfPublish, for any number of publishers, versions of the *)
(* table and restarts of the nginx container.                              *)
(*                                                                         *)
(* The code holds no lock and checks nothing twice, so what is promised    *)
(* depends on the histories: as long as no two calls share a name (Whole,  *)
(* Bounded), no restart cuts a test short (Sound), and no older rows are   *)
(* staged over newer ones (Ordered, Arrived, Runs).                        *)
(***************************************************************************)
EXTENDS ConfPublish, TLAPS

USE ConfAssumption

\* The names whose content the reload loop handles.
Later == {"staged", "live", "bak"}
FileOf(p)  == Name(pub[p].nth)
Busy(p)    == pub[p].pc \in {"write", "rename"}
Testing(f) == reloader.pc = "test" /\ This = f

\* Nobody has rows that are not committed yet.
RowsBound == \A p \in Publisher : pub[p].rows <= db
FileBound == \A f \in File, n \in Later : file[f][n] \in Version => file[f][n] <= db

\* One writer per name, who finds there what he has put there; everything beyond
\* that name is a whole rendering.
Alone ==
  /\ \A p, q \in Publisher : Busy(p) /\ Busy(q) /\ pub[p].nth = pub[q].nth => p = q
  /\ \A p \in Publisher :
       /\ pub[p].pc = "write" => pub[p].handle = "writing" /\ file[FileOf(p)]["writing"] = Empty
       /\ pub[p].pc = "rename" => file[FileOf(p)]["writing"] = pub[p].rows
Whole ==
  /\ \A f \in File, n \in Later : file[f][n] \in Version \cup {Absent}
  /\ reloader.pc \in {"backup", "install"} => file[This]["staged"] \in Version
  /\ reloader.pc = "test" => file[This]["live"] \in Version

\* What nginx would start on, or go back to, parses.
Sound ==
  /\ \A f \in File : Parses(file[f]["bak"]) /\ (Parses(file[f]["live"]) \/ Testing(f))
  /\ nginx.run = "down" => Testing("apps.conf")

\* The backup is older than the file, and that than the staged one.
Ordered ==
  /\ \A f \in File :
       /\ file[f]["live"] \in Version /\ file[f]["staged"] \in Version =>
            file[f]["live"] <= file[f]["staged"]
       /\ file[f]["bak"] \in Version =>
            file[f]["live"] \in Version /\ file[f]["bak"] <= file[f]["live"]
  /\ reloader.pc = "install" /\ file[This]["live"] \in Version => file[This]["bak"] = file[This]["live"]

\* The table as it is has reached both files, or the call that changed it last
\* has not answered "staged": it has failed, or it has not read the rows, or it
\* has them as they are.
Reached(f) == db \in {file[f]["staged"], file[f]["live"]}
Behind(p)  == ~pub[p].ok /\ (pub[p].pc \in {"idle", "read"} \/ pub[p].rows = db)
Arrived == db \notin Bad =>
  /\ (\A f \in File : Reached(f)) \/ (\E p \in Publisher : Behind(p))
  /\ \A p \in Publisher :
       pub[p].pc \in {"open", "write", "rename"} /\ pub[p].nth = 2 /\ pub[p].rows = db =>
         Reached("apps.conf")

\* nginx has been told of the current rows, or is going to read them; and what
\* it runs is no newer than what a start, or a start after a refusal, would read.
Told == nginx.run \in {"reading", "up"} /\ ~signalled /\ ~Testing("apps.conf") /\ Conf = db /\ db \notin Bad =>
          nginx.conf = db
Floor == nginx.run # "down" /\ nginx.conf \in Version =>
  /\ Conf \in Version /\ nginx.conf <= Conf
  /\ ~Parses(Conf) => file["apps.conf"]["bak"] \in Version /\ nginx.conf <= file["apps.conf"]["bak"]

Quiet == ~shared /\ ~cut /\ ~overtaken

IInv ==
  /\ Types /\ RowsBound
  /\ ~shared => Alone /\ Whole /\ FileBound
  /\ ~shared /\ ~cut => Sound
  /\ Quiet => Ordered /\ Arrived /\ Told /\ Floor

-----------------------------------------------------------------------------
(* The operators of ConfPublish.                                           *)

LEMMA Names ==
  /\ Name(1) = "apps.conf" /\ Name(2) = "breakglass.apps"
  /\ \A n \in 1..2 : Name(n) \in File
  /\ \A n, m \in 1..2 : Name(n) = Name(m) => n = m
  /\ Types => This \in File /\ \A p \in Publisher : FileOf(p) \in File
  BY DEF Name, File, This, FileOf, Types, Reloader, Pub

LEMMA Contents ==
  /\ Version \subseteq Nat
  /\ \A c \in Version : c # Absent /\ c # Empty /\ c # Mixed /\ c \in Content
  /\ Absent \in Content /\ Empty \in Content /\ Mixed \in Content
  /\ Parses(Absent) /\ \A c \in Version : Parses(c) <=> c \notin Bad
  /\ \A c \in Version \cup {Absent} : ~Parses(c) => c \in Version
  BY DEF Version, Content, Parses

LEMMA MovedIs ==
  ASSUME Types, NEW f \in File, NEW from \in Place, NEW to \in Place, from # to,
         file' = Moved(f, from, to)
  PROVE  /\ file' \in [File -> [Place -> Content]]
         /\ file'[f][to] = file[f][from] /\ file'[f][from] = Absent
         /\ \A n \in Place \ {from, to} : file'[f][n] = file[f][n]
         /\ \A g \in File \ {f} : \A n \in Place : file'[g][n] = file[g][n]
  <1>1. file \in [File -> [Place -> Content]] /\ Absent \in Content
    BY DEF Types, Content
  <1> QED
    BY <1>1 DEF Moved

LEMMA PutIs ==
  ASSUME Types, NEW f \in File, NEW n \in Place, NEW c \in Content,
         file' = [file EXCEPT ![f][n] = c]
  PROVE  /\ file' \in [File -> [Place -> Content]]
         /\ file'[f][n] = c
         /\ \A m \in Place \ {n} : file'[f][m] = file[f][m]
         /\ \A g \in File \ {f} : \A m \in Place : file'[g][m] = file[g][m]
  <1>1. file \in [File -> [Place -> Content]]
    BY DEF Types
  <1> QED
    BY <1>1

LEMMA FollowIs ==
  ASSUME Types, NEW f \in File, NEW from \in Place, NEW to \in Place
  PROVE  /\ Follow(f, from, to) \in [Publisher -> Pub]
         /\ \A p \in Publisher : LET q == Follow(f, from, to)[p] IN
              /\ q.pc = pub[p].pc /\ q.rows = pub[p].rows /\ q.nth = pub[p].nth /\ q.ok = pub[p].ok
              /\ ~(Busy(p) /\ FileOf(p) = f) \/ pub[p].handle \notin {from, to} => q = pub[p]
  <1> DEFINE moved(h) == IF h = from THEN to ELSE IF h = to THEN "none" ELSE h
  <1>1. pub \in [Publisher -> Pub]
    BY DEF Types
  <1>2. \A p \in Publisher :
          Follow(f, from, to)[p] = IF Busy(p) /\ FileOf(p) = f
                                   THEN [pub[p] EXCEPT !.handle = moved(pub[p].handle)] ELSE pub[p]
    BY DEF Follow, Busy, FileOf
  <1>3. \A p \in Publisher : pub[p].handle \in Place \cup {"none"}
    BY <1>1 DEF Pub
  <1>4. \A p \in Publisher : moved(pub[p].handle) \in Place \cup {"none"}
    BY <1>3
  <1>5. \A p \in Publisher : pub[p].handle \notin {from, to} => moved(pub[p].handle) = pub[p].handle
    OBVIOUS
  <1>6. Follow(f, from, to) = [p \in Publisher |-> Follow(f, from, to)[p]]
    BY DEF Follow
  <1> HIDE DEF moved
  <1>7. ASSUME NEW p \in Publisher
        PROVE  LET q == Follow(f, from, to)[p] IN
                 /\ q \in Pub
                 /\ q.pc = pub[p].pc /\ q.rows = pub[p].rows /\ q.nth = pub[p].nth /\ q.ok = pub[p].ok
                 /\ ~(Busy(p) /\ FileOf(p) = f) \/ pub[p].handle \notin {from, to} => q = pub[p]
    <2>1. pub[p] \in Pub
      BY <1>1
    <2>2. CASE Busy(p) /\ FileOf(p) = f
      <3>1. Follow(f, from, to)[p] = [pub[p] EXCEPT !.handle = moved(pub[p].handle)]
        BY <1>2, <2>2
      <3> QED
        BY <1>4, <1>5, <2>1, <2>2, <3>1 DEF Pub
    <2>3. CASE ~(Busy(p) /\ FileOf(p) = f)
      BY <1>2, <2>1, <2>3
    <2> QED
      BY <2>2, <2>3
  <1> QED
    BY <1>6, <1>7

LEMMA InitConf == Init => IInv
  <1> SUFFICES ASSUME Init PROVE IInv
    OBVIOUS
  <1>1. PICK first \in {0, Absent} :
          /\ file = [f \in File |-> [n \in Place |-> IF n = "live" THEN first ELSE Absent]]
          /\ pub = [p \in Publisher |-> Idle(first = 0)]
          /\ nginx = [run |-> "up", conf |-> first]
    BY DEF Init
  <1>2. 0 \in Version /\ 0 \notin Bad
    BY DEF Version
  <1>3. first \in Version \cup {Absent} /\ first \in Content /\ Absent \in Content /\ Parses(first)
    BY <1>1, <1>2, Contents
  <1>4. db = 0 /\ reloader = [pc |-> "look", nth |-> 1] /\ signalled = FALSE /\ restarts = 0
        /\ cut = FALSE /\ shared = FALSE /\ overtaken = FALSE
    BY DEF Init
  <1>5. /\ \A f \in File : file[f]["live"] = first /\ file[f]["bak"] = Absent /\ file[f]["staged"] = Absent
        /\ \A f \in File, n \in Place : file[f][n] \in {first, Absent}
        /\ file \in [File -> [Place -> Content]]
    BY <1>1, <1>3 DEF Place
  <1>6. (first = 0) \in BOOLEAN
    OBVIOUS
  <1>7. /\ \A p \in Publisher : pub[p].pc = "idle" /\ pub[p].rows = 0 /\ pub[p].ok = (first = 0)
        /\ pub \in [Publisher -> Pub]
    BY <1>1, <1>2, <1>6 DEF Idle, Pub, PubPc
  <1>8. nginx \in Nginx /\ nginx.run = "up" /\ nginx.conf = first
    BY <1>1, <1>3 DEF Nginx
  <1>9. Types
    <2>1. reloader \in Reloader /\ restarts \in 0..MaxRestart
      BY <1>4 DEF Reloader
    <2>2. cut \in BOOLEAN /\ shared \in BOOLEAN /\ overtaken \in BOOLEAN /\ signalled \in BOOLEAN
      BY <1>4
    <2> QED
      BY <1>2, <1>4, <1>5, <1>7, <1>8, <2>1, <2>2 DEF Types
  <1>10. RowsBound /\ Alone
    BY <1>4, <1>7 DEF RowsBound, Alone, Busy
  <1>11. Whole /\ Sound
    BY <1>3, <1>4, <1>5, <1>8, Contents DEF Whole, Sound, Later, Place
  <1>12. FileBound
    BY <1>3, <1>4, <1>5, Contents DEF FileBound, Later, Place
  <1>13. Ordered
    BY <1>3, <1>4, <1>5, Contents DEF Ordered
  <1>14. Arrived
    <2>1. CASE first = 0
      BY <1>4, <1>5, <1>7, <2>1 DEF Arrived, Reached
    <2>2. CASE first # 0
      BY <1>7, <2>2 DEF Arrived, Behind
    <2> QED
      BY <2>1, <2>2
  <1>15. Told /\ Floor
    <2>1. Conf = first
      BY <1>5 DEF Conf, File
    <2>2. first \in Version => first <= first
      BY Contents
    <2> QED
      BY <1>2, <1>3, <1>4, <1>8, <2>1, <2>2 DEF Told, Floor
  <1> QED
    BY <1>9, <1>10, <1>11, <1>12, <1>13, <1>14, <1>15 DEF IInv

-----------------------------------------------------------------------------
(* What reads only what nobody has touched.                                *)

SameLater == \A f \in File, n \in Later : file'[f][n] = file[f][n]

LEMMA WholeKept ==
  ASSUME Types, Whole, SameLater, UNCHANGED reloader PROVE Whole'
  <1>1. This \in File
    BY Names
  <1> QED
    BY <1>1 DEF Whole, SameLater, Later, This

LEMMA BoundKept ==
  ASSUME Types, FileBound, SameLater, db' \in Version, db <= db' PROVE FileBound'
  <1>1. db \in Nat /\ db' \in Nat /\ Version \subseteq Nat
    BY Contents DEF Types
  <1>2. ASSUME NEW f \in File, NEW n \in Later, file'[f][n] \in Version PROVE file'[f][n] <= db'
    <2>1. file[f][n] = file'[f][n] /\ file[f][n] \in Nat /\ file[f][n] <= db
      BY <1>1, <1>2 DEF FileBound, SameLater
    <2> QED
      BY <1>1, <2>1
  <1> QED
    BY <1>2 DEF FileBound

LEMMA SoundKept ==
  ASSUME Sound, SameLater, UNCHANGED <<reloader, nginx>> PROVE Sound'
  BY DEF Sound, SameLater, Later, Testing, This

LEMMA OrderedKept ==
  ASSUME Types, Ordered, SameLater, UNCHANGED reloader PROVE Ordered'
  <1>1. This \in File /\ This' = This
    BY Names DEF This
  <1> QED
    BY <1>1 DEF Ordered, SameLater, Later

LEMMA RunsKept ==
  ASSUME Told, Floor, SameLater, UNCHANGED <<reloader, nginx, signalled>>, Conf = db' => db = db'
  PROVE  Told' /\ Floor'
  <1>1. "apps.conf" \in File /\ Conf' = Conf /\ file'["apps.conf"]["bak"] = file["apps.conf"]["bak"]
    BY DEF Conf, SameLater, Later, File
  <1> QED
    BY <1>1 DEF Told, Floor, Testing, This

\* Whoever is left alone by a step: the others see neither his file nor his
\* place in the call change.
LEMMA ArrivedKept ==
  ASSUME Arrived, SameLater, UNCHANGED db,
         \A p \in Publisher : Behind(p) => Behind(p)',
         \A p \in Publisher :
           (pub[p].pc \in {"open", "write", "rename"} /\ pub[p].nth = 2 /\ pub[p].rows = db)' =>
             \/ pub[p].pc \in {"open", "write", "rename"} /\ pub[p].nth = 2 /\ pub[p].rows = db
             \/ Reached("apps.conf")
  PROVE  Arrived'
  <1>1. "apps.conf" \in File /\ \A f \in File : Reached(f) => Reached(f)'
    BY DEF Reached, SameLater, Later, File
  <1> QED
    BY <1>1 DEF Arrived

-----------------------------------------------------------------------------
(* publish_conf, up to the rename.                                         *)

\* A call that is not writing any more leaves the others alone.
LEMMA AloneLeft ==
  ASSUME Alone, NEW p \in Publisher, \A q \in Publisher \ {p} : pub'[q] = pub[q], ~Busy(p)',
         \A q \in Publisher \ {p} : Busy(q) =>
           file'[FileOf(q)]["writing"] = file[FileOf(q)]["writing"]
  PROVE  Alone'
  <1>1. \A q \in Publisher \ {p} : (Busy(q)' <=> Busy(q)) /\ FileOf(q)' = FileOf(q)
    BY DEF Busy, FileOf
  <1>2. \A q, r \in Publisher : Busy(q)' /\ Busy(r)' /\ pub'[q].nth = pub'[r].nth => q = r
    BY <1>1 DEF Alone
  <1>3. \A q \in Publisher : /\ (pub[q].pc = "write" => Busy(q))'
                             /\ (pub[q].pc = "rename" => Busy(q))'
    BY DEF Busy
  <1>4. ASSUME NEW q \in Publisher
        PROVE  /\ pub'[q].pc = "write" => pub'[q].handle = "writing" /\ file'[FileOf(q)']["writing"] = Empty
               /\ pub'[q].pc = "rename" => file'[FileOf(q)']["writing"] = pub'[q].rows
    <2>1. CASE q = p
      BY <1>3, <2>1
    <2>2. CASE q # p
      BY <1>1, <1>3, <2>2 DEF Alone
    <2> QED
      BY <2>1, <2>2
  <1> QED
    BY <1>2, <1>4 DEF Alone

\* A step of one call that only works under the name for writing.
LEMMA CallStep ==
  ASSUME IInv, NEW p \in Publisher, Types', RowsBound',
         UNCHANGED <<db, reloader, signalled, nginx, cut, overtaken>>, shared => shared',
         ~shared' => SameLater /\ Alone',
         \A q \in Publisher \ {p} : pub'[q] = pub[q],
         Behind(p) => Behind(p)',
         (pub[p].pc \in {"open", "write", "rename"} /\ pub[p].nth = 2 /\ pub[p].rows = db)' =>
           pub[p].pc \in {"open", "write", "rename"} /\ pub[p].nth = 2 /\ pub[p].rows = db
  PROVE  IInv'
  <1>1. Types /\ db' \in Version /\ db <= db'
    BY Contents DEF IInv, Types
  <1>2. ASSUME ~shared' PROVE (Alone /\ Whole /\ FileBound)'
    <2>1. SameLater /\ Alone' /\ Whole /\ FileBound
      BY <1>2 DEF IInv
    <2> QED
      BY <1>1, <2>1, WholeKept, BoundKept
  <1>3. ASSUME ~shared', ~cut' PROVE Sound'
    BY <1>3, SoundKept DEF IInv
  <1>4. ASSUME Quiet' PROVE (Ordered /\ Arrived /\ Told /\ Floor)'
    <2>1. SameLater /\ Ordered /\ Arrived /\ Told /\ Floor
      BY <1>4 DEF IInv, Quiet
    <2>2. Ordered' /\ Told' /\ Floor'
      BY <1>1, <2>1, OrderedKept, RunsKept
    <2>3. \A q \in Publisher : Behind(q) => Behind(q)'
      BY DEF Behind
    <2>4. \A q \in Publisher :
            (pub[q].pc \in {"open", "write", "rename"} /\ pub[q].nth = 2 /\ pub[q].rows = db)' =>
               pub[q].pc \in {"open", "write", "rename"} /\ pub[q].nth = 2 /\ pub[q].rows = db
      OBVIOUS
    <2>5. Arrived'
      BY <2>1, <2>3, <2>4, ArrivedKept
    <2> QED
      BY <2>2, <2>5
  <1> QED
    BY <1>2, <1>3, <1>4 DEF IInv

LEMMA ChangeStep ==
  ASSUME IInv, NEW p \in Publisher, Change(p) PROVE IInv'
  <1>1. /\ pub[p].pc = "idle" /\ db < MaxVersion /\ db' = db + 1
        /\ pub' = [pub EXCEPT ![p].pc = "read", ![p].ok = FALSE]
        /\ UNCHANGED <<file, reloader, signalled, nginx, restarts, cut, shared, overtaken>>
    BY DEF Change, history
  <1>2. Types /\ pub \in [Publisher -> Pub] /\ db \in Nat /\ Version \subseteq Nat
    BY Contents DEF IInv, Types
  <1>3. db' \in Version /\ db <= db' /\ db # db' /\ db' \in Nat
    BY <1>1, <1>2 DEF Version
  <1>4. /\ pub' \in [Publisher -> Pub]
        /\ pub'[p].pc = "read" /\ pub'[p].ok = FALSE /\ pub'[p].rows = pub[p].rows
        /\ \A q \in Publisher \ {p} : pub'[q] = pub[q]
    <2> DEFINE new == [pub[p] EXCEPT !.pc = "read", !.ok = FALSE]
    <2>1. new \in Pub /\ new.pc = "read" /\ new.ok = FALSE /\ new.rows = pub[p].rows
      BY <1>2 DEF Pub, PubPc
    <2>2. pub' = [pub EXCEPT ![p] = new]
      BY <1>1
    <2> HIDE DEF new
    <2> QED
      BY <1>2, <2>1, <2>2
  <1>5. Types'
    BY <1>1, <1>2, <1>3, <1>4 DEF Types
  <1>6. \A q \in Publisher : pub'[q].rows = pub[q].rows /\ pub[q].rows \in Nat /\ pub[q].rows <= db
    BY <1>2, <1>4 DEF IInv, RowsBound, Pub
  <1>7. RowsBound'
    BY <1>2, <1>3, <1>6 DEF RowsBound
  <1>8. SameLater /\ ~Busy(p)'
    BY <1>1, <1>4 DEF SameLater, Busy
  <1>9. ASSUME ~shared' PROVE (Alone /\ Whole /\ FileBound)'
    <2>1. Alone /\ Whole /\ FileBound
      BY <1>1, <1>9 DEF IInv
    <2>2. Alone'
      BY <1>1, <1>4, <1>8, <2>1, AloneLeft
    <2> QED
      BY <1>1, <1>2, <1>3, <1>8, <2>1, <2>2, WholeKept, BoundKept
  <1>10. ASSUME ~shared', ~cut' PROVE Sound'
    BY <1>1, <1>8, <1>10, SoundKept DEF IInv
  <1>11. ASSUME Quiet' PROVE (Ordered /\ Arrived /\ Told /\ Floor)'
    <2>1. Ordered /\ Told /\ Floor /\ FileBound
      BY <1>1, <1>11 DEF IInv, Quiet
    <2>2. Conf # db'
      <3>1. Conf \in Version => Conf <= db
        BY <2>1 DEF FileBound, Conf, File, Later
      <3> QED
        BY <1>1, <1>2, <1>3, <3>1
    <2>3. Ordered' /\ Told' /\ Floor'
      BY <1>1, <1>2, <1>8, <2>1, <2>2, OrderedKept, RunsKept
    <2>4. Behind(p)'
      BY <1>4 DEF Behind
    <2>5. \A q \in Publisher : pub'[q].rows # db'
      BY <1>1, <1>2, <1>6
    <2>6. Arrived'
      BY <2>4, <2>5 DEF Arrived
    <2> QED
      BY <2>3, <2>6
  <1> QED
    BY <1>5, <1>7, <1>9, <1>10, <1>11 DEF IInv

LEMMA BeginStep ==
  ASSUME IInv, NEW p \in Publisher, Republish(p) \/ ReadRows(p) PROVE IInv'
  <1>1. /\ UNCHANGED <<db, file, reloader, signalled, nginx, restarts, cut, shared, overtaken>>
    BY DEF Republish, ReadRows, history
  <1>2. Types /\ pub \in [Publisher -> Pub] /\ db \in Version /\ db <= db
    BY Contents DEF IInv, Types
  <1>3. /\ pub' \in [Publisher -> Pub]
        /\ \A q \in Publisher \ {p} : pub'[q] = pub[q]
        /\ pub'[p].ok = pub[p].ok
        /\ \/ pub'[p].pc = "read" /\ pub'[p].rows = pub[p].rows
           \/ pub'[p].pc = "open" /\ pub'[p].rows = db /\ pub'[p].nth = 1
    <2>1. CASE Republish(p)
      BY <1>2, <2>1 DEF Republish, Pub, PubPc
    <2>2. CASE ReadRows(p)
      <3>1. pub' = [pub EXCEPT ![p].pc = "open", ![p].rows = db, ![p].nth = 1]
        BY <2>2 DEF ReadRows
      <3>2. pub'[p] = [pub[p] EXCEPT !.pc = "open", !.rows = db, !.nth = 1]
        BY <1>2, <3>1
      <3>3. pub[p] \in Pub
        BY <1>2
      <3>4. /\ pub'[p] \in Pub
            /\ pub'[p].ok = pub[p].ok /\ pub'[p].pc = "open" /\ pub'[p].rows = db /\ pub'[p].nth = 1
        <4>1. pub'[p] = [pc |-> "open", rows |-> db, nth |-> 1, handle |-> pub[p].handle, ok |-> pub[p].ok]
          BY <3>2, <3>3 DEF Pub
        <4>2. pub[p].handle \in Place \cup {"none"} /\ pub[p].ok \in BOOLEAN
          BY <3>3 DEF Pub
        <4> QED
          BY <1>2, <4>1, <4>2 DEF Pub, PubPc
      <3>5. pub' \in [Publisher -> Pub] /\ \A q \in Publisher \ {p} : pub'[q] = pub[q]
        BY <1>2, <3>1, <3>2, <3>4
      <3> QED
        BY <3>4, <3>5
    <2> QED
      BY <2>1, <2>2
  <1>4. Types'
    BY <1>1, <1>2, <1>3 DEF Types
  <1>5. RowsBound'
    BY <1>1, <1>2, <1>3 DEF IInv, RowsBound
  <1>6. SameLater /\ ~Busy(p)'
    BY <1>1, <1>3 DEF SameLater, Busy
  <1>7. ~shared' => Alone'
    BY <1>1, <1>3, <1>6, AloneLeft DEF IInv
  <1>8. Behind(p) => Behind(p)'
    BY <1>1, <1>3 DEF Behind
  <1>9. ~(pub'[p].pc \in {"open", "write", "rename"} /\ pub'[p].nth = 2)
    BY <1>3
  <1> QED
    BY <1>1, <1>3, <1>4, <1>5, <1>6, <1>7, <1>8, <1>9, CallStep

\* Two calls that write at once write to different files, unless they share.
LEMMA Elsewhere ==
  ASSUME Types, Alone, NEW p \in Publisher, Busy(p), NEW q \in Publisher \ {p}, Busy(q)
  PROVE  FileOf(q) # FileOf(p)
  <1>1. pub[p].nth \in 1..2 /\ pub[q].nth \in 1..2 /\ pub[p].nth # pub[q].nth
    BY DEF Types, Pub, Alone
  <1> QED
    BY <1>1, Names DEF FileOf

LEMMA OpenStep ==
  ASSUME IInv, NEW p \in Publisher, OpenFile(p) PROVE IInv'
  <1> DEFINE f == FileOf(p)
  <1>1. /\ pub[p].pc = "open"
        /\ file' = [file EXCEPT ![f]["writing"] = Empty]
        /\ pub' = [pub EXCEPT ![p].pc = "write", ![p].handle = "writing"]
        /\ shared' = (shared \/ \E q \in Publisher \ {p} : Busy(q) /\ pub[q].nth = pub[p].nth)
        /\ UNCHANGED <<db, reloader, signalled, nginx, restarts, cut, overtaken>>
    BY DEF OpenFile, FileOf, Busy
  <1>2. Types /\ pub \in [Publisher -> Pub] /\ f \in File
    BY Names DEF IInv, Types
  <1>3. /\ file' \in [File -> [Place -> Content]] /\ file'[f]["writing"] = Empty
        /\ \A m \in Later : file'[f][m] = file[f][m]
        /\ \A g \in File \ {f} : \A m \in Place : file'[g][m] = file[g][m]
    <2>1. Empty \in Content /\ "writing" \in Place
      BY Contents DEF Place
    <2>2. file' = [file EXCEPT ![f]["writing"] = Empty]
      BY <1>1
    <2>0. file \in [File -> [Place -> Content]] /\ f \in File
      BY <1>2 DEF Types
    <2> HIDE DEF f
    <2>3. /\ file' \in [File -> [Place -> Content]] /\ file'[f]["writing"] = Empty
          /\ \A m \in Place \ {"writing"} : file'[f][m] = file[f][m]
          /\ \A g \in File \ {f} : \A m \in Place : file'[g][m] = file[g][m]
      BY <2>0, <2>1, <2>2
    <2>4. Later \subseteq Place \ {"writing"}
      BY DEF Later, Place
    <2> QED
      BY <2>3, <2>4
  <1>4. /\ pub' \in [Publisher -> Pub] /\ \A q \in Publisher \ {p} : pub'[q] = pub[q]
        /\ pub'[p].pc = "write" /\ pub'[p].handle = "writing" /\ pub'[p].nth = pub[p].nth
        /\ pub'[p].rows = pub[p].rows /\ pub'[p].ok = pub[p].ok
    <2> DEFINE new == [pub[p] EXCEPT !.pc = "write", !.handle = "writing"]
    <2>1. /\ new \in Pub /\ new.pc = "write" /\ new.handle = "writing" /\ new.nth = pub[p].nth
          /\ new.rows = pub[p].rows /\ new.ok = pub[p].ok
      BY <1>2 DEF Pub, PubPc, Place
    <2>2. pub' = [pub EXCEPT ![p] = new]
      BY <1>1
    <2> HIDE DEF new
    <2> QED
      BY <1>2, <2>1, <2>2
  <1>5. shared' \in BOOLEAN /\ (shared => shared')
    BY <1>1, <1>2 DEF Types
  <1>6. Types'
    BY <1>1, <1>2, <1>3, <1>4, <1>5 DEF Types
  <1>7. RowsBound'
    BY <1>1, <1>4 DEF IInv, RowsBound
  <1>8. SameLater
    BY <1>3 DEF SameLater, Later, Place
  <1>9. ASSUME ~shared' PROVE Alone'
    <2>1. Alone /\ \A q \in Publisher \ {p} : Busy(q) => pub[q].nth # pub[p].nth
      BY <1>1, <1>9 DEF IInv
    <2>2. \A q \in Publisher \ {p} : (Busy(q)' <=> Busy(q)) /\ FileOf(q)' = FileOf(q)
      BY <1>4 DEF Busy, FileOf
    <2>3. \A q \in Publisher \ {p} : Busy(q) => FileOf(q) \in File \ {f}
      BY <1>2, <2>1, Names DEF FileOf, Pub
    <2>4. FileOf(p)' = f
      BY <1>4 DEF FileOf
    <2>5. \A q, r \in Publisher : Busy(q)' /\ Busy(r)' /\ pub'[q].nth = pub'[r].nth => q = r
      BY <1>4, <2>1, <2>2 DEF Alone
    <2>6. ASSUME NEW q \in Publisher
          PROVE  /\ pub'[q].pc = "write" => pub'[q].handle = "writing" /\ file'[FileOf(q)']["writing"] = Empty
                 /\ pub'[q].pc = "rename" => file'[FileOf(q)']["writing"] = pub'[q].rows
      <3>1. CASE q = p
        BY <1>3, <1>4, <2>4, <3>1
      <3>2. CASE q # p
        <4>1. pub'[q] = pub[q] /\ FileOf(q)' = FileOf(q)
          BY <1>4, <2>2, <3>2
        <4>2. Busy(q) => file'[FileOf(q)]["writing"] = file[FileOf(q)]["writing"]
          BY <1>3, <2>3, <3>2 DEF Place
        <4>3. (pub[q].pc = "write" => Busy(q)) /\ (pub[q].pc = "rename" => Busy(q))
          BY DEF Busy
        <4> QED
          BY <2>1, <4>1, <4>2, <4>3 DEF Alone
      <3> QED
        BY <3>1, <3>2
    <2> QED
      BY <2>5, <2>6 DEF Alone
  <1>10. Behind(p) => Behind(p)'
    BY <1>1, <1>4 DEF Behind
  <1>11. (pub[p].pc \in {"open", "write", "rename"} /\ pub[p].nth = 2 /\ pub[p].rows = db)' =>
            pub[p].pc \in {"open", "write", "rename"} /\ pub[p].nth = 2 /\ pub[p].rows = db
    BY <1>1, <1>4
  <1> HIDE DEF f
  <1> QED
    BY <1>1, <1>4, <1>5, <1>6, <1>7, <1>8, <1>9, <1>10, <1>11, CallStep

LEMMA WriteStep ==
  ASSUME IInv, NEW p \in Publisher, WriteFile(p) PROVE IInv'
  <1> DEFINE f == FileOf(p)
             h == pub[p].handle
             v == pub[p].rows
  <1>1. /\ pub[p].pc = "write"
        /\ IF h = "none" THEN file' = file
           ELSE \E c \in {v} \cup (IF file[f][h] \in {Empty, v} THEN {} ELSE {Mixed}) :
                  file' = [file EXCEPT ![f][h] = c]
        /\ pub' = [pub EXCEPT ![p].pc = "rename", ![p].handle = "none"]
        /\ UNCHANGED <<db, reloader, signalled, nginx, restarts, cut, shared, overtaken>>
    BY DEF WriteFile, FileOf, history
  <1>2. /\ Types /\ pub \in [Publisher -> Pub] /\ f \in File
        /\ v \in Version /\ v \in Content /\ Mixed \in Content /\ h \in Place \cup {"none"}
    BY Names, Contents DEF IInv, Types, Pub
  <1>3. /\ pub' \in [Publisher -> Pub] /\ \A q \in Publisher \ {p} : pub'[q] = pub[q]
        /\ pub'[p].pc = "rename" /\ pub'[p].nth = pub[p].nth
        /\ pub'[p].rows = pub[p].rows /\ pub'[p].ok = pub[p].ok
    <2> DEFINE new == [pub[p] EXCEPT !.pc = "rename", !.handle = "none"]
    <2>1. /\ new \in Pub /\ new.pc = "rename" /\ new.nth = pub[p].nth
          /\ new.rows = pub[p].rows /\ new.ok = pub[p].ok
      BY <1>2 DEF Pub, PubPc
    <2>2. pub' = [pub EXCEPT ![p] = new]
      BY <1>1
    <2> HIDE DEF new
    <2> QED
      BY <1>2, <2>1, <2>2
  <1>4. file' \in [File -> [Place -> Content]]
    <2>1. CASE h = "none"
      BY <1>1, <1>2, <2>1 DEF Types
    <2>2. CASE h # "none"
      <3>1. PICK c \in Content : file' = [file EXCEPT ![f][h] = c]
        BY <1>1, <1>2, <2>2
      <3>2. h \in Place
        BY <1>2, <2>2
      <3>3. file \in [File -> [Place -> Content]] /\ f \in File
        BY <1>2 DEF Types
      <3> HIDE DEF h, f
      <3> QED
        BY <3>1, <3>2, <3>3
    <2> QED
      BY <2>1, <2>2
  <1>5. Types'
    BY <1>1, <1>2, <1>3, <1>4 DEF Types
  <1>6. RowsBound'
    BY <1>1, <1>3 DEF IInv, RowsBound
  <1>7. ASSUME ~shared' PROVE SameLater /\ Alone'
    <2>1. Alone /\ Busy(p) /\ h = "writing" /\ file[f][h] = Empty
      BY <1>1, <1>7 DEF IInv, Alone, Busy
    <2>2. file' = [file EXCEPT ![f]["writing"] = v]
      BY <1>1, <2>1
    <2>3. /\ file'[f]["writing"] = v /\ \A m \in Later : file'[f][m] = file[f][m]
          /\ \A g \in File \ {f} : \A m \in Place : file'[g][m] = file[g][m]
      <3>1. "writing" \in Place
        BY DEF Place
      <3>2. v \in Content
        BY <1>2, Contents DEF Pub
      <3>0. file \in [File -> [Place -> Content]] /\ f \in File
        BY <1>2 DEF Types
      <3> HIDE DEF f, h, v
      <3>3. /\ file'[f]["writing"] = v
            /\ \A m \in Place \ {"writing"} : file'[f][m] = file[f][m]
            /\ \A g \in File \ {f} : \A m \in Place : file'[g][m] = file[g][m]
        BY <3>0, <2>2, <3>1, <3>2
      <3>4. Later \subseteq Place \ {"writing"}
        BY DEF Later, Place
      <3> QED
        BY <3>3, <3>4
    <2>4. SameLater
      BY <2>3 DEF SameLater, Later, Place
    <2>5. \A q \in Publisher : (Busy(q)' <=> Busy(q)) /\ FileOf(q)' = FileOf(q) /\ pub'[q].nth = pub[q].nth
      BY <1>1, <1>3 DEF Busy, FileOf
    <2>6. \A q, r \in Publisher : Busy(q)' /\ Busy(r)' /\ pub'[q].nth = pub'[r].nth => q = r
      BY <2>1, <2>5 DEF Alone
    <2>7. ASSUME NEW q \in Publisher
          PROVE  /\ pub'[q].pc = "write" => pub'[q].handle = "writing" /\ file'[FileOf(q)']["writing"] = Empty
                 /\ pub'[q].pc = "rename" => file'[FileOf(q)']["writing"] = pub'[q].rows
      <3>1. CASE q = p
        BY <1>3, <2>3, <2>5, <3>1
      <3>2. CASE q # p
        <4>1. pub'[q] = pub[q] /\ FileOf(q)' = FileOf(q)
          BY <1>3, <2>5, <3>2
        <4>2. Busy(q) => file'[FileOf(q)]["writing"] = file[FileOf(q)]["writing"]
          BY <1>2, <2>1, <2>3, <3>2, Elsewhere, Names DEF Place
        <4>3. (pub[q].pc = "write" => Busy(q)) /\ (pub[q].pc = "rename" => Busy(q))
          BY DEF Busy
        <4> QED
          BY <2>1, <4>1, <4>2, <4>3 DEF Alone
      <3> QED
        BY <3>1, <3>2
    <2> QED
      BY <2>4, <2>6, <2>7 DEF Alone
  <1>8. Behind(p) => Behind(p)'
    BY <1>1, <1>3 DEF Behind
  <1>9. (pub[p].pc \in {"open", "write", "rename"} /\ pub[p].nth = 2 /\ pub[p].rows = db)' =>
           pub[p].pc \in {"open", "write", "rename"} /\ pub[p].nth = 2 /\ pub[p].rows = db
    BY <1>1, <1>3
  <1> HIDE DEF f, h, v
  <1> QED
    BY <1>1, <1>3, <1>5, <1>6, <1>7, <1>8, <1>9, CallStep

LEMMA FailStep ==
  ASSUME IInv, NEW p \in Publisher, PublishFails(p) PROVE IInv'
  <1> DEFINE f == FileOf(p)
             h == pub[p].handle
  <1>1. /\ pub[p].pc # "idle"
        /\ \/ file' = file
           \/ pub[p].pc = "write" /\ h # "none" /\ file' = [file EXCEPT ![f][h] = Mixed]
        /\ pub' = [pub EXCEPT ![p] = Idle(@.ok)]
        /\ UNCHANGED <<db, reloader, signalled, nginx, restarts, cut, shared, overtaken>>
    BY DEF PublishFails, FileOf, history
  <1>2. /\ Types /\ pub \in [Publisher -> Pub] /\ f \in File /\ db \in Nat
        /\ Mixed \in Content /\ h \in Place \cup {"none"}
    BY Names, Contents DEF IInv, Types, Pub
  <1>3. pub[p].ok \in BOOLEAN /\ 0 \in Version
    BY <1>2 DEF Pub, Version
  <1>4. Idle(pub[p].ok) \in Pub /\ Idle(pub[p].ok).ok = pub[p].ok
    BY <1>3 DEF Pub, PubPc, Idle
  <1>5. /\ pub' \in [Publisher -> Pub] /\ \A q \in Publisher \ {p} : pub'[q] = pub[q]
        /\ pub'[p].pc = "idle" /\ pub'[p].rows = 0 /\ pub'[p].ok = pub[p].ok
    BY <1>1, <1>2, <1>4 DEF Idle
  <1>6. file' \in [File -> [Place -> Content]]
    <2>1. CASE file' = file
      BY <1>2, <2>1 DEF Types
    <2>2. CASE h # "none" /\ file' = [file EXCEPT ![f][h] = Mixed]
      <3>1. h \in Place
        BY <1>2, <2>2
      <3> HIDE DEF h, f
      <3> QED
        BY <1>2, <2>2, <3>1, PutIs, Zenon
    <2> QED
      BY <1>1, <2>1, <2>2
  <1>7. Types'
    BY <1>1, <1>2, <1>5, <1>6 DEF Types
  <1>8. RowsBound'
    BY <1>1, <1>2, <1>5 DEF IInv, RowsBound
  <1>9. ASSUME ~shared' PROVE SameLater /\ Alone'
    <2>1. Alone
      BY <1>1, <1>9 DEF IInv
    <2>2. CASE file' = file
      BY <1>5, <2>1, <2>2, AloneLeft DEF SameLater, Busy
    <2>3. CASE pub[p].pc = "write" /\ file' = [file EXCEPT ![f][h] = Mixed]
      <3>1. Busy(p) /\ h = "writing"
        BY <2>1, <2>3 DEF Alone, Busy
      <3>2. /\ \A m \in Later : file'[f][m] = file[f][m]
            /\ \A g \in File \ {f} : \A m \in Place : file'[g][m] = file[g][m]
        <4> DEFINE n == h
        <4>1. n \in Place /\ \A m \in Later : m \in Place \ {n}
          BY <3>1 DEF Later, Place
        <4>2. file' = [file EXCEPT ![f][n] = Mixed]
          BY <2>3
        <4> HIDE DEF n, f
        <4>3. /\ \A m \in Place \ {n} : file'[f][m] = file[f][m]
              /\ \A g \in File \ {f} : \A m \in Place : file'[g][m] = file[g][m]
          BY <1>2, <4>1, <4>2, PutIs, Zenon
        <4> QED
          BY <4>1, <4>3
      <3>3. SameLater
        BY <3>2 DEF SameLater, Later, Place
      <3>4. \A q \in Publisher \ {p} : Busy(q) =>
              file'[FileOf(q)]["writing"] = file[FileOf(q)]["writing"]
        BY <1>2, <2>1, <3>1, <3>2, Elsewhere, Names DEF Place
      <3>5. ~Busy(p)'
        BY <1>5 DEF Busy
      <3> QED
        BY <1>5, <2>1, <3>3, <3>4, <3>5, AloneLeft
    <2> QED
      BY <1>1, <2>2, <2>3
  <1>10. Behind(p) => Behind(p)'
    BY <1>5 DEF Behind
  <1>11. ~(pub'[p].pc \in {"open", "write", "rename"})
    BY <1>5
  <1> HIDE DEF f, h
  <1> QED
    BY <1>1, <1>5, <1>7, <1>8, <1>9, <1>10, <1>11, CallStep

-----------------------------------------------------------------------------
(* The rename.                                                             *)

LEMMA RenameIs ==
  ASSUME Types, NEW p \in Publisher, RenameFile(p)
  PROVE  /\ pub[p].pc = "rename" /\ file[FileOf(p)]["writing"] # Absent
         /\ file' \in [File -> [Place -> Content]]
         /\ file'[FileOf(p)]["staged"] = file[FileOf(p)]["writing"]
         /\ \A n \in {"live", "bak"} : file'[FileOf(p)][n] = file[FileOf(p)][n]
         /\ \A g \in File \ {FileOf(p)} : \A n \in Place : file'[g][n] = file[g][n]
         /\ pub' \in [Publisher -> Pub]
         /\ \A q \in Publisher \ {p} :
              /\ pub'[q].pc = pub[q].pc /\ pub'[q].rows = pub[q].rows
              /\ pub'[q].nth = pub[q].nth /\ pub'[q].ok = pub[q].ok
              /\ ~(Busy(q) /\ FileOf(q) = FileOf(p)) => pub'[q] = pub[q]
         /\ \/ pub[p].nth = 2 /\ pub'[p].pc = "idle" /\ pub'[p].rows = 0 /\ pub'[p].ok = TRUE
            \/ /\ pub[p].nth = 1 /\ pub'[p].pc = "open" /\ pub'[p].nth = 2
               /\ pub'[p].rows = pub[p].rows /\ pub'[p].ok = pub[p].ok
         /\ overtaken' = (overtaken \/ \E c \in {file[FileOf(p)]["staged"], file[FileOf(p)]["live"]} \cap Version :
                            file[FileOf(p)]["writing"] \in Version /\ c > file[FileOf(p)]["writing"])
         /\ UNCHANGED <<db, reloader, signalled, nginx, restarts, cut, shared>>
  <1> DEFINE f == FileOf(p)
             F == Follow(f, "writing", "staged")
             done == IF pub[p].nth = 2 THEN Idle(TRUE) ELSE [pub[p] EXCEPT !.pc = "open", !.nth = 2]
  <1>1. /\ pub[p].pc = "rename" /\ file[f]["writing"] # Absent
        /\ file' = Moved(f, "writing", "staged")
        /\ pub' = [F EXCEPT ![p] = done]
        /\ overtaken' = (overtaken \/ \E c \in {file[f]["staged"], file[f]["live"]} \cap Version :
                           file[f]["writing"] \in Version /\ c > file[f]["writing"])
        /\ UNCHANGED <<db, reloader, signalled, nginx, restarts, cut, shared>>
    BY DEF RenameFile, FileOf
  <1>2. /\ pub \in [Publisher -> Pub] /\ pub[p] \in Pub /\ f \in File
        /\ "writing" \in Place /\ "staged" \in Place /\ "writing" # "staged"
    BY Names DEF Types, Place
  <1>3. done \in Pub
    <2>1. CASE pub[p].nth = 2
      <3>1. 0 \in Version
        BY DEF Version
      <3> QED
        BY <2>1, <3>1 DEF Pub, PubPc, Idle
    <2>2. CASE pub[p].nth # 2
      <3>1. done = [pc |-> "open", rows |-> pub[p].rows, nth |-> 2, handle |-> pub[p].handle, ok |-> pub[p].ok]
        BY <1>2, <2>2 DEF Pub
      <3>2. pub[p].rows \in Version /\ pub[p].handle \in Place \cup {"none"} /\ pub[p].ok \in BOOLEAN
        BY <1>2 DEF Pub
      <3> HIDE DEF done
      <3> QED
        BY <3>1, <3>2 DEF Pub, PubPc
    <2> QED
      BY <2>1, <2>2
  <1>4. \/ pub[p].nth = 2 /\ done.pc = "idle" /\ done.rows = 0 /\ done.ok = TRUE
        \/ /\ pub[p].nth = 1 /\ done.pc = "open" /\ done.nth = 2
           /\ done.rows = pub[p].rows /\ done.ok = pub[p].ok
    <2>1. CASE pub[p].nth = 2
      BY <2>1 DEF Idle
    <2>2. CASE pub[p].nth # 2
      BY <1>2, <2>2 DEF Pub
    <2> QED
      BY <2>1, <2>2
  <1> HIDE DEF done, f
  <1>5. /\ F \in [Publisher -> Pub]
        /\ \A q \in Publisher : /\ F[q].pc = pub[q].pc /\ F[q].rows = pub[q].rows
                                /\ F[q].nth = pub[q].nth /\ F[q].ok = pub[q].ok
                                /\ ~(Busy(q) /\ FileOf(q) = f) => F[q] = pub[q]
    BY <1>2, FollowIs
  <1> HIDE DEF F
  <1>6. /\ pub' \in [Publisher -> Pub] /\ pub'[p] = done
        /\ \A q \in Publisher \ {p} : pub'[q] = F[q]
    BY <1>1, <1>3, <1>5
  <1>7. /\ file' \in [File -> [Place -> Content]]
        /\ file'[f]["staged"] = file[f]["writing"]
        /\ \A n \in Place \ {"writing", "staged"} : file'[f][n] = file[f][n]
        /\ \A g \in File \ {f} : \A n \in Place : file'[g][n] = file[g][n]
    BY <1>1, <1>2, MovedIs
  <1>8. \A n \in {"live", "bak"} : file'[f][n] = file[f][n]
    BY <1>7 DEF Place
  <1> QED
    BY <1>1, <1>4, <1>5, <1>6, <1>7, <1>8 DEF f

LEMMA RenameStep ==
  ASSUME IInv, NEW p \in Publisher, RenameFile(p) PROVE IInv'
  <1> DEFINE f == FileOf(p)
  <1>1. Types /\ pub \in [Publisher -> Pub] /\ f \in File /\ db \in Nat /\ pub[p].rows \in Version
    BY Names, Contents DEF IInv, Types, Pub
  <1>2. /\ pub[p].pc = "rename" /\ file[f]["writing"] # Absent
        /\ file' \in [File -> [Place -> Content]]
        /\ file'[f]["staged"] = file[f]["writing"]
        /\ \A n \in {"live", "bak"} : file'[f][n] = file[f][n]
        /\ \A g \in File \ {f} : \A n \in Place : file'[g][n] = file[g][n]
        /\ pub' \in [Publisher -> Pub]
        /\ UNCHANGED <<db, reloader, signalled, nginx, restarts, cut, shared>>
    BY <1>1, RenameIs, Zenon
  <1>3. \A q \in Publisher \ {p} :
          /\ pub'[q].pc = pub[q].pc /\ pub'[q].rows = pub[q].rows
          /\ pub'[q].nth = pub[q].nth /\ pub'[q].ok = pub[q].ok
          /\ ~(Busy(q) /\ FileOf(q) = f) => pub'[q] = pub[q]
    BY <1>1, RenameIs, Zenon
  <1>4. \/ pub[p].nth = 2 /\ pub'[p].pc = "idle" /\ pub'[p].rows = 0 /\ pub'[p].ok = TRUE
        \/ /\ pub[p].nth = 1 /\ pub'[p].pc = "open" /\ pub'[p].nth = 2
           /\ pub'[p].rows = pub[p].rows /\ pub'[p].ok = pub[p].ok
    BY <1>1, RenameIs
  <1>5. overtaken' = (overtaken \/ \E c \in {file[f]["staged"], file[f]["live"]} \cap Version :
                        file[f]["writing"] \in Version /\ c > file[f]["writing"])
    BY <1>1, RenameIs
  <1> HIDE DEF f
  <1>6. Types'
    <2>1. overtaken' \in BOOLEAN
      BY <1>1, <1>5 DEF Types
    <2> QED
      BY <1>1, <1>2, <2>1 DEF Types
  <1>7. RowsBound'
    BY <1>1, <1>2, <1>3, <1>4 DEF IInv, RowsBound
  <1>8. \A g \in File, n \in {"live", "bak"} : file'[g][n] = file[g][n]
    BY <1>1, <1>2 DEF Place
  <1>9. ASSUME ~shared'
        PROVE  file[f]["writing"] = pub[p].rows /\ \A q \in Publisher \ {p} : pub'[q] = pub[q]
    <2>1. Alone /\ Busy(p)
      BY <1>2, <1>9 DEF IInv, Busy
    <2>2. \A q \in Publisher \ {p} : Busy(q) => FileOf(q) # f
      BY <1>1, <2>1, Elsewhere DEF f
    <2> QED
      BY <1>2, <1>3, <2>1, <2>2 DEF Alone, f
  <1>10. ASSUME ~shared' PROVE (Alone /\ Whole /\ FileBound)'
    <2>1. Alone /\ Whole /\ FileBound /\ Busy(p) /\ ~Busy(p)'
      BY <1>2, <1>4, <1>10 DEF IInv, Busy
    <2>2. \A q \in Publisher \ {p} : Busy(q) =>
            file'[FileOf(q)]["writing"] = file[FileOf(q)]["writing"]
      BY <1>1, <1>2, <2>1, Elsewhere, Names DEF f, Place
    <2>3. Alone'
      BY <1>9, <1>10, <2>1, <2>2, AloneLeft
    <2>4. \A g \in File, n \in Later : \/ file'[g][n] = file[g][n]
                                       \/ g = f /\ n = "staged" /\ file'[g][n] = pub[p].rows
      BY <1>2, <1>9, <1>10 DEF Later, Place
    <2>5. FileBound'
      BY <1>1, <1>2, <2>1, <2>4 DEF FileBound, IInv, RowsBound
    <2>6. Whole'
      <3>1. This \in File /\ This' = This
        BY <1>1, <1>2, Names DEF This
      <3> QED
        BY <1>1, <1>2, <2>1, <2>4, <3>1 DEF Whole, Later
    <2> QED
      BY <2>3, <2>5, <2>6
  <1>11. ASSUME ~shared', ~cut' PROVE Sound'
    BY <1>2, <1>8, <1>11 DEF IInv, Sound, Testing, This
  <1>12. ASSUME Quiet' PROVE (Ordered /\ Arrived /\ Told /\ Floor)'
    <2>1. Ordered /\ Arrived /\ Told /\ Floor /\ Whole /\ FileBound
      BY <1>2, <1>5, <1>12 DEF IInv, Quiet
    <2>2. file'[f]["staged"] = pub[p].rows
      BY <1>2, <1>9, <1>12 DEF Quiet
    <2>3. \A c \in {file[f]["staged"], file[f]["live"]} \cap Version : c <= pub[p].rows
      <3>1. ~overtaken'
        BY <1>12 DEF Quiet
      <3>2. file[f]["writing"] = pub[p].rows
        BY <1>2, <2>2
      <3>3. ASSUME NEW c \in {file[f]["staged"], file[f]["live"]} \cap Version PROVE c <= pub[p].rows
        <4>1. ~(c > pub[p].rows)
          BY <1>1, <1>5, <3>1, <3>2
        <4>2. c \in Nat /\ pub[p].rows \in Nat
          BY <1>1, Contents
        <4> QED
          BY <4>1, <4>2
      <3> QED
        BY <3>3
    <2>4. Ordered'
      <3>1. This \in File /\ This' = This
        BY <1>1, <1>2, Names DEF This
      <3>2. reloader.pc = "install" /\ file'[This]["live"] \in Version => file'[This]["bak"] = file'[This]["live"]
        BY <1>8, <2>1, <3>1 DEF Ordered
      <3>3. ASSUME NEW g \in File
            PROVE  /\ file'[g]["live"] \in Version /\ file'[g]["staged"] \in Version =>
                        file'[g]["live"] <= file'[g]["staged"]
                   /\ file'[g]["bak"] \in Version =>
                        file'[g]["live"] \in Version /\ file'[g]["bak"] <= file'[g]["live"]
        <4>1. CASE g = f
          BY <1>8, <2>1, <2>2, <2>3, <4>1 DEF Ordered
        <4>2. CASE g # f
          BY <1>2, <2>1, <4>2 DEF Ordered, Place
        <4> QED
          BY <4>1, <4>2
      <3> QED
        BY <1>2, <3>1, <3>2, <3>3 DEF Ordered
    <2>5. \A g \in File : db \in {file[g]["staged"], file[g]["live"]} => Reached(g)'
      <3>1. ASSUME NEW g \in File, db \in {file[g]["staged"], file[g]["live"]} PROVE Reached(g)'
        <4>1. CASE g = f
          <5>1. pub[p].rows <= db /\ db \in Version /\ pub[p].rows \in Nat
            BY <1>1, Contents DEF IInv, RowsBound, Types
          <5>2. db = pub[p].rows
            BY <1>1, <2>3, <3>1, <4>1, <5>1
          <5> QED
            BY <1>2, <2>2, <4>1, <5>2 DEF Reached
        <4>2. CASE g # f
          BY <1>2, <3>1, <4>2 DEF Reached, Place
        <4> QED
          BY <4>1, <4>2
      <3> QED
        BY <3>1
    <2>6. pub[p].rows = db => db' \in {file'[f]["staged"], file'[f]["live"]}
      BY <1>2, <2>2 DEF Reached
    <2>7. ASSUME db' \notin Bad
          PROVE  (\A g \in File : Reached(g)') \/ (\E q \in Publisher : Behind(q)')
      <3>1. CASE \A g \in File : Reached(g)
        BY <2>5, <3>1 DEF Reached
      <3>2. CASE \E q \in Publisher : Behind(q)
        <4>1. PICK q \in Publisher : Behind(q)
          BY <3>2
        <4>2. CASE q # p
          BY <1>2, <1>3, <4>1, <4>2 DEF Behind
        <4>3. CASE q = p /\ pub[p].nth = 1
          BY <1>2, <1>4, <4>1, <4>3 DEF Behind
        <4>4. CASE q = p /\ pub[p].nth = 2
          <5>1. pub[p].rows = db /\ f = "breakglass.apps"
            BY <1>2, <4>1, <4>4, Names DEF Behind, f, FileOf
          <5>2. Reached("apps.conf")
            BY <1>2, <2>1, <2>7, <4>4, <5>1 DEF Arrived
          <5>3. Reached("apps.conf")' /\ Reached("breakglass.apps")'
            BY <2>5, <2>6, <5>1, <5>2 DEF Reached, File
          <5> QED
            BY <5>3 DEF File
        <4> QED
          BY <1>4, <4>2, <4>3, <4>4
      <3> QED
        BY <1>2, <2>1, <2>7, <3>1, <3>2 DEF Arrived
    <2>8. ASSUME db' \notin Bad, NEW q \in Publisher,
                 pub'[q].pc \in {"open", "write", "rename"} /\ pub'[q].nth = 2 /\ pub'[q].rows = db'
          PROVE  Reached("apps.conf")'
      <3>1. CASE q # p
        <4>1. Reached("apps.conf")
          BY <1>2, <1>3, <2>1, <2>8, <3>1 DEF Arrived
        <4> QED
          BY <2>5, <4>1 DEF Reached, File
      <3>2. CASE q = p
        <4>1. pub[p].nth = 1 /\ pub[p].rows = db
          BY <1>2, <1>4, <2>8, <3>2
        <4>2. f = "apps.conf"
          BY <4>1, Names DEF f, FileOf
        <4> QED
          BY <2>6, <4>1, <4>2 DEF Reached
      <3> QED
        BY <3>1, <3>2
    <2>9. Arrived'
      BY <2>7, <2>8 DEF Arrived
    <2>10. Told' /\ Floor'
      <3>1. Conf' = Conf /\ file'["apps.conf"]["bak"] = file["apps.conf"]["bak"]
        BY <1>8 DEF Conf, File
      <3> QED
        BY <1>2, <2>1, <3>1 DEF Told, Floor, Testing, This
    <2> QED
      BY <2>4, <2>9, <2>10
  <1> QED
    BY <1>6, <1>7, <1>10, <1>11, <1>12 DEF IInv

-----------------------------------------------------------------------------
(* install_staged.                                                         *)

\* The calls go on as they were; a handle under the name for writing stays.
SameCalls ==
  \A p \in Publisher :
    /\ pub'[p].pc = pub[p].pc /\ pub'[p].rows = pub[p].rows
    /\ pub'[p].nth = pub[p].nth /\ pub'[p].ok = pub[p].ok
    /\ pub[p].handle = "writing" => pub'[p].handle = "writing"

LEMMA AloneSame ==
  ASSUME Types, Alone, SameCalls, \A f \in File : file'[f]["writing"] = file[f]["writing"]
  PROVE  Alone'
  <1>1. \A p \in Publisher : (Busy(p)' <=> Busy(p)) /\ FileOf(p)' = FileOf(p) /\ FileOf(p) \in File
    BY Names DEF SameCalls, Busy, FileOf
  <1> QED
    BY <1>1 DEF Alone, SameCalls

LEMMA ArrivedSame ==
  ASSUME Arrived, SameCalls, UNCHANGED db,
         db \notin Bad => \A f \in File : Reached(f) => db \in {file'[f]["staged"], file'[f]["live"]}
  PROVE  Arrived'
  <1>1. ASSUME db \notin Bad PROVE \A f \in File : Reached(f) => Reached(f)'
    BY <1>1 DEF Reached
  <1>2. \A p \in Publisher : Behind(p) => Behind(p)'
    BY DEF Behind, SameCalls
  <1>3. "apps.conf" \in File
    BY DEF File
  <1>4. ASSUME db' \notin Bad
        PROVE  (\A f \in File : Reached(f)') \/ (\E p \in Publisher : Behind(p)')
    <2>1. (\A f \in File : Reached(f)) \/ (\E p \in Publisher : Behind(p))
      BY <1>4 DEF Arrived
    <2> QED
      BY <1>1, <1>2, <1>4, <2>1
  <1>5. ASSUME db' \notin Bad, NEW p \in Publisher,
               pub'[p].pc \in {"open", "write", "rename"} /\ pub'[p].nth = 2 /\ pub'[p].rows = db'
        PROVE  Reached("apps.conf")'
    BY <1>1, <1>3, <1>5 DEF Arrived, SameCalls
  <1> QED
    BY <1>4, <1>5 DEF Arrived

\* A step that changes no file, and is no verdict nginx could miss.
LEMMA LoopStep ==
  ASSUME IInv, Types', UNCHANGED <<db, file, pub, shared, overtaken>>, cut => cut',
         ~shared' => Whole',
         ~shared' /\ ~cut' => Sound',
         Quiet' => Ordered' /\ Told' /\ Floor'
  PROVE  IInv'
  <1>1. Types /\ SameLater /\ SameCalls /\ db' \in Version /\ db <= db'
    BY Contents DEF IInv, Types, SameLater, SameCalls
  <1>2. RowsBound'
    BY DEF IInv, RowsBound
  <1>3. ASSUME ~shared' PROVE (Alone /\ FileBound)'
    BY <1>1, <1>3, AloneSame, BoundKept DEF IInv
  <1>4. ASSUME Quiet' PROVE Arrived'
    <2>1. Arrived
      BY <1>4 DEF IInv, Quiet
    <2> QED
      BY <1>1, <2>1, ArrivedSame DEF Reached
  <1> QED
    BY <1>2, <1>3, <1>4 DEF IInv

LEMMA TurnIs ==
  ASSUME Types
  PROVE  /\ Turn \in Reloader /\ Turn.pc = "look"
         /\ \A pc \in {"look", "backup", "install", "test", "clean"} :
              LET r == [reloader EXCEPT !.pc = pc] IN r \in Reloader /\ r.pc = pc /\ r.nth = reloader.nth
  <1>1. reloader \in Reloader /\ reloader.nth \in 1..2
    BY DEF Types, Reloader
  <1>2. 3 - reloader.nth \in 1..2
    BY <1>1
  <1> QED
    BY <1>1, <1>2 DEF Turn, Reloader

LEMMA LookStep ==
  ASSUME IInv, Look PROVE IInv'
  <1>1. /\ nginx.run # "down" /\ reloader.pc = "look"
        /\ reloader' = IF file[This]["staged"] = Absent THEN Turn ELSE [reloader EXCEPT !.pc = "backup"]
        /\ UNCHANGED <<db, file, pub, signalled, nginx, restarts, cut, shared, overtaken>>
    BY DEF Look, Up, history
  <1>2. Types
    BY DEF IInv
  <1>3. /\ reloader' \in Reloader
        /\ \/ reloader'.pc = "look"
           \/ reloader'.pc = "backup" /\ reloader'.nth = reloader.nth /\ file[This]["staged"] # Absent
    BY <1>1, <1>2, TurnIs
  <1>4. Types'
    BY <1>1, <1>2, <1>3 DEF Types
  <1>5. ASSUME ~shared' PROVE Whole'
    <2>1. Whole /\ This \in File
      BY <1>1, <1>2, <1>5, Names DEF IInv
    <2>2. reloader'.pc = "backup" => This' = This
      BY <1>3 DEF This
    <2> QED
      BY <1>1, <1>3, <2>1, <2>2 DEF Whole, Later
  <1>6. ~Testing("apps.conf") /\ ~Testing("apps.conf")' /\ \A f \in File : ~Testing(f) /\ ~Testing(f)'
    BY <1>1, <1>3 DEF Testing
  <1>7. ASSUME ~shared', ~cut' PROVE Sound'
    BY <1>1, <1>6, <1>7 DEF IInv, Sound
  <1>8. ASSUME Quiet' PROVE Ordered' /\ Told' /\ Floor'
    <2>1. Ordered /\ Told /\ Floor
      BY <1>1, <1>8 DEF IInv, Quiet
    <2>2. Ordered'
      BY <1>1, <1>3, <2>1 DEF Ordered
    <2>3. Told' /\ Floor'
      BY <1>1, <1>6, <2>1 DEF Told, Floor, Conf
    <2> QED
      BY <2>2, <2>3
  <1> QED
    BY <1>1, <1>4, <1>5, <1>7, <1>8, LoopStep

LEMMA AcceptStep ==
  ASSUME IInv, Accept PROVE IInv'
  <1>1. /\ nginx.run # "down" /\ reloader.pc = "test" /\ Parses(file[This]["live"])
        /\ signalled' = (signalled \/ (This = "apps.conf" /\ nginx.run = "up"))
        /\ cut' = (cut \/ (This = "apps.conf" /\ nginx.run = "reading"))
        /\ reloader' = [reloader EXCEPT !.pc = "clean"]
        /\ UNCHANGED <<db, file, pub, nginx, restarts, shared, overtaken>>
    BY DEF Accept, Up
  <1>2. Types
    BY DEF IInv
  <1>3. reloader' \in Reloader /\ reloader'.pc = "clean"
    BY <1>1, <1>2, TurnIs
  <1>4. signalled' \in BOOLEAN /\ cut' \in BOOLEAN /\ (cut => cut') /\ (signalled => signalled')
    BY <1>1, <1>2 DEF Types
  <1>5. Types'
    BY <1>1, <1>2, <1>3, <1>4 DEF Types
  <1>6. ASSUME ~shared' PROVE Whole'
    BY <1>1, <1>3, <1>6 DEF IInv, Whole
  <1>7. ASSUME ~shared', ~cut' PROVE Sound'
    <2>1. Sound
      BY <1>1, <1>7 DEF IInv
    <2>2. \A f \in File : Parses(file[f]["live"])
      BY <1>1, <2>1 DEF Sound, Testing
    <2> QED
      BY <1>1, <2>1, <2>2 DEF Sound, Parses
  <1>8. ASSUME Quiet' PROVE Ordered' /\ Told' /\ Floor'
    <2>1. Ordered /\ Told /\ Floor
      BY <1>1, <1>8 DEF IInv, Quiet
    <2>2. Ordered'
      BY <1>1, <1>3, <2>1 DEF Ordered
    <2>3. Floor'
      BY <1>1, <2>1 DEF Floor, Conf, Parses
    <2>4. Told'
      <3>1. CASE This = "apps.conf"
        <4>1. nginx.run \in {"reading", "up"} => signalled' \/ cut'
          BY <1>1, <3>1
        <4> QED
          BY <1>1, <1>8, <4>1 DEF Told, Quiet
      <3>2. CASE This # "apps.conf"
        <4>1. ~Testing("apps.conf")
          BY <3>2 DEF Testing
        <4> QED
          BY <1>1, <1>4, <2>1, <4>1 DEF Told, Conf
      <3> QED
        BY <3>1, <3>2
    <2> QED
      BY <2>2, <2>3, <2>4
  <1> QED
    BY <1>1, <1>4, <1>5, <1>6, <1>7, <1>8, LoopStep

\* A step of the loop that moves files: what it has to leave right.
LEMMA InstallerStep ==
  ASSUME IInv, Types', SameCalls, UNCHANGED <<db, shared, cut, overtaken>>,
         \A f \in File : file'[f]["writing"] = file[f]["writing"],
         ~shared' => Whole' /\ FileBound',
         ~shared' /\ ~cut' => Sound',
         Quiet' => Ordered' /\ Told' /\ Floor',
         Quiet' /\ db \notin Bad => \A f \in File : Reached(f) => db \in {file'[f]["staged"], file'[f]["live"]}
  PROVE  IInv'
  <1>1. Types
    BY DEF IInv
  <1>2. RowsBound'
    BY DEF IInv, RowsBound, SameCalls
  <1>3. ASSUME ~shared' PROVE Alone'
    BY <1>1, <1>3, AloneSame DEF IInv
  <1>4. ASSUME Quiet' PROVE Arrived'
    <2>1. Arrived
      BY <1>4 DEF IInv, Quiet
    <2> QED
      BY <1>4, <2>1, ArrivedSame
  <1> QED
    BY <1>2, <1>3, <1>4 DEF IInv

LEMMA BackupStep ==
  ASSUME IInv, Backup PROVE IInv'
  <1> DEFINE g == This
  <1>1. /\ nginx.run # "down" /\ reloader.pc = "backup"
        /\ file' = IF file[g]["live"] = Absent THEN file ELSE [file EXCEPT ![g]["bak"] = file[g]["live"]]
        /\ reloader' = [reloader EXCEPT !.pc = "install"]
        /\ UNCHANGED <<db, pub, signalled, nginx, restarts, cut, shared, overtaken>>
    BY DEF Backup, Up, history
  <1>2. /\ Types /\ g \in File /\ file[g]["live"] \in Content /\ "bak" \in Place
        /\ file \in [File -> [Place -> Content]]
    BY Names DEF IInv, Types, Place
  <1>3. reloader' \in Reloader /\ reloader'.pc = "install" /\ This' = g
    BY <1>1, <1>2, TurnIs DEF This
  <1> HIDE DEF g
  <1>4. /\ file' \in [File -> [Place -> Content]]
        /\ \A f \in File, n \in Place : n # "bak" => file'[f][n] = file[f][n]
        /\ \A f \in File \ {g} : file'[f]["bak"] = file[f]["bak"]
        /\ file'[g]["bak"] = IF file[g]["live"] = Absent THEN file[g]["bak"] ELSE file[g]["live"]
    <2>1. CASE file[g]["live"] = Absent
      BY <1>1, <1>2, <2>1
    <2>2. CASE file[g]["live"] # Absent
      <3>1. file' = [file EXCEPT ![g]["bak"] = file[g]["live"]]
        BY <1>1, <2>2
      <3> QED
        BY <1>2, <2>2, <3>1, PutIs
    <2> QED
      BY <2>1, <2>2
  <1>5. Types'
    BY <1>1, <1>2, <1>3, <1>4 DEF Types
  <1>6. /\ \A f \in File : /\ file'[f]["writing"] = file[f]["writing"]
                           /\ file'[f]["staged"] = file[f]["staged"]
                           /\ file'[f]["live"] = file[f]["live"]
        /\ SameCalls
    BY <1>1, <1>4 DEF Place, SameCalls
  <1>7. \A f \in File : file'[f]["bak"] \in {file[f]["bak"], file[f]["live"]}
    BY <1>4
  <1>8. ASSUME ~shared' PROVE Whole' /\ FileBound'
    <2>1. Whole /\ FileBound
      BY <1>1, <1>8 DEF IInv
    <2>2. Whole'
      <3>1. file[g]["staged"] \in Version
        BY <1>1, <2>1 DEF Whole, g
      <3> QED
        BY <1>2, <1>3, <1>6, <1>7, <2>1, <3>1 DEF Whole, Later
    <2>3. FileBound'
      BY <1>1, <1>6, <1>7, <2>1 DEF FileBound, Later
    <2> QED
      BY <2>2, <2>3
  <1>9. \A f \in File : ~Testing(f)
    BY <1>1 DEF Testing
  <1>10. ASSUME ~shared', ~cut' PROVE Sound'
    <2>1. Sound
      BY <1>1, <1>10 DEF IInv
    <2>2. \A f \in File : Parses(file'[f]["bak"]) /\ Parses(file'[f]["live"])
      BY <1>6, <1>7, <1>9, <2>1 DEF Sound
    <2> QED
      BY <1>1, <2>2 DEF Sound, Parses
  <1>11. ASSUME Quiet' PROVE Ordered' /\ Told' /\ Floor'
    <2>1. Ordered /\ Told /\ Floor /\ Whole /\ Sound
      BY <1>1, <1>11 DEF IInv, Quiet
    <2>2. \A f \in File : file[f]["live"] \in Version \cup {Absent}
      BY <2>1 DEF Whole, Later
    <2>3. \A f \in File : file'[f]["live"] = Absent => file'[f]["bak"] \notin Version
      BY <1>4, <1>6, <2>1, Contents DEF Ordered
    <2>4. file'[g]["live"] \in Version => file'[g]["bak"] = file'[g]["live"]
      BY <1>2, <1>4, <1>6, Contents
    <2>5. Ordered'
      <3>1. ASSUME NEW f \in File, file'[f]["bak"] \in Version
            PROVE  file'[f]["live"] \in Version /\ file'[f]["bak"] <= file'[f]["live"]
        <4>1. file'[f]["live"] \in Version
          BY <1>6, <2>2, <2>3, <3>1
        <4>2. CASE f = g
          <5>1. file'[f]["bak"] = file'[f]["live"] /\ file'[f]["live"] \in Nat
            BY <2>4, <4>1, <4>2, Contents
          <5> QED
            BY <4>1, <5>1
        <4>3. CASE f # g
          BY <1>4, <1>6, <2>1, <3>1, <4>3 DEF Ordered
        <4> QED
          BY <4>1, <4>2, <4>3
      <3>2. \A f \in File : file'[f]["live"] \in Version /\ file'[f]["staged"] \in Version =>
                              file'[f]["live"] <= file'[f]["staged"]
        BY <1>6, <2>1 DEF Ordered
      <3> QED
        BY <1>3, <2>4, <3>1, <3>2 DEF Ordered
    <2>6. "apps.conf" \in File /\ Conf' = Conf /\ ~Testing("apps.conf") /\ Parses(Conf)
      BY <1>6, <1>9, <2>1 DEF Conf, File, Sound
    <2>7. Told' /\ Floor'
      BY <1>1, <2>1, <2>6 DEF Told, Floor, Parses
    <2> QED
      BY <2>5, <2>7
  <1>12. \A f \in File : Reached(f) => db \in {file'[f]["staged"], file'[f]["live"]}
    BY <1>6 DEF Reached
  <1> QED
    BY <1>1, <1>5, <1>6, <1>8, <1>10, <1>11, <1>12, InstallerStep

LEMMA CleanStep ==
  ASSUME IInv, Clean PROVE IInv'
  <1> DEFINE g == This
  <1>1. /\ nginx.run # "down" /\ reloader.pc = "clean"
        /\ file' = [file EXCEPT ![g]["bak"] = Absent]
        /\ reloader' = Turn
        /\ UNCHANGED <<db, pub, signalled, nginx, restarts, cut, shared, overtaken>>
    BY DEF Clean, Up, history
  <1>2. Types /\ g \in File /\ Absent \in Content /\ "bak" \in Place
    BY Names, Contents DEF IInv, Place
  <1>3. reloader' \in Reloader /\ reloader'.pc = "look"
    BY <1>1, <1>2, TurnIs
  <1> HIDE DEF g
  <1>4. /\ file' \in [File -> [Place -> Content]] /\ file'[g]["bak"] = Absent
        /\ \A m \in Place \ {"bak"} : file'[g][m] = file[g][m]
        /\ \A f \in File \ {g} : \A m \in Place : file'[f][m] = file[f][m]
    <2>1. file \in [File -> [Place -> Content]]
      BY <1>2 DEF Types
    <2> QED
      BY <1>1, <1>2, <2>1
  <1>5. Types'
    BY <1>1, <1>2, <1>3, <1>4 DEF Types
  <1>6. /\ \A f \in File : /\ file'[f]["writing"] = file[f]["writing"]
                           /\ file'[f]["staged"] = file[f]["staged"]
                           /\ file'[f]["live"] = file[f]["live"]
                           /\ file'[f]["bak"] \in {file[f]["bak"], Absent}
        /\ SameCalls
    BY <1>1, <1>2, <1>4 DEF Place, SameCalls
  <1>7. ASSUME ~shared' PROVE Whole' /\ FileBound'
    <2>1. Whole /\ FileBound
      BY <1>1, <1>7 DEF IInv
    <2>2. Whole'
      BY <1>3, <1>6, <2>1 DEF Whole, Later
    <2>3. FileBound'
      BY <1>1, <1>6, <2>1, Contents DEF FileBound, Later
    <2> QED
      BY <2>2, <2>3
  <1>8. \A f \in File : ~Testing(f)
    BY <1>1 DEF Testing
  <1>9. ASSUME ~shared', ~cut' PROVE Sound'
    <2>1. Sound
      BY <1>1, <1>9 DEF IInv
    <2>2. \A f \in File : Parses(file'[f]["bak"]) /\ Parses(file'[f]["live"])
      BY <1>6, <1>8, <2>1, Contents DEF Sound
    <2> QED
      BY <1>1, <2>2 DEF Sound, Parses
  <1>10. ASSUME Quiet' PROVE Ordered' /\ Told' /\ Floor'
    <2>1. Ordered /\ Told /\ Floor /\ Sound
      BY <1>1, <1>10 DEF IInv, Quiet
    <2>2. Ordered'
      BY <1>3, <1>6, <2>1, Contents DEF Ordered
    <2>3. "apps.conf" \in File /\ Conf' = Conf /\ ~Testing("apps.conf") /\ Parses(Conf)
      BY <1>6, <1>8, <2>1 DEF Conf, File, Sound
    <2>4. Told' /\ Floor'
      BY <1>1, <2>1, <2>3 DEF Told, Floor, Parses
    <2> QED
      BY <2>2, <2>4
  <1>11. \A f \in File : Reached(f) => db \in {file'[f]["staged"], file'[f]["live"]}
    BY <1>6 DEF Reached
  <1> QED
    BY <1>1, <1>5, <1>6, <1>7, <1>9, <1>10, <1>11, InstallerStep

LEMMA InstallStep ==
  ASSUME IInv, Install PROVE IInv'
  <1> DEFINE g == This
  <1>1. /\ nginx.run # "down" /\ reloader.pc = "install"
        /\ file' = Moved(g, "staged", "live")
        /\ pub' = Follow(g, "staged", "live")
        /\ reloader' = [reloader EXCEPT !.pc = "test"]
        /\ UNCHANGED <<db, signalled, nginx, restarts, cut, shared, overtaken>>
    BY DEF Install, Up, history
  <1>2. Types /\ g \in File /\ "staged" \in Place /\ "live" \in Place /\ db \in Nat
    BY Names, Contents DEF IInv, Types, Place
  <1>3. reloader' \in Reloader /\ reloader'.pc = "test" /\ This' = g
    BY <1>1, <1>2, TurnIs DEF This
  <1>4. /\ \A f \in File : Testing(f)' <=> f = g
        /\ \A f \in File : ~Testing(f)
    BY <1>1, <1>3 DEF Testing
  <1> HIDE DEF g
  <1>5. /\ file' \in [File -> [Place -> Content]]
        /\ file'[g]["live"] = file[g]["staged"] /\ file'[g]["staged"] = Absent
        /\ \A m \in Place \ {"staged", "live"} : file'[g][m] = file[g][m]
        /\ \A f \in File \ {g} : \A m \in Place : file'[f][m] = file[f][m]
    BY <1>1, <1>2, MovedIs, Zenon
  <1>6. SameCalls /\ pub' \in [Publisher -> Pub]
    <2>1. \A p \in Publisher : pub[p].handle = "writing" => pub[p].handle \notin {"staged", "live"}
      OBVIOUS
    <2> QED
      BY <1>1, <1>2, <2>1, FollowIs DEF SameCalls
  <1>7. Types'
    BY <1>1, <1>2, <1>3, <1>5, <1>6 DEF Types
  <1>8. /\ \A f \in File : /\ file'[f]["writing"] = file[f]["writing"]
                           /\ file'[f]["bak"] = file[f]["bak"]
        /\ \A f \in File \ {g} : /\ file'[f]["staged"] = file[f]["staged"]
                                 /\ file'[f]["live"] = file[f]["live"]
    BY <1>2, <1>5 DEF Place
  <1>9. ASSUME ~shared' PROVE Whole' /\ FileBound' /\ file[g]["staged"] \in Version
    <2>1. Whole /\ FileBound
      BY <1>1, <1>9 DEF IInv
    <2>2. file[g]["staged"] \in Version
      BY <1>1, <2>1 DEF Whole, g
    <2>3. Whole'
      BY <1>2, <1>3, <1>5, <1>8, <2>1, <2>2 DEF Whole, Later
    <2>4. FileBound'
      BY <1>1, <1>2, <1>5, <1>8, <2>1, Contents DEF FileBound, Later
    <2> QED
      BY <2>2, <2>3, <2>4
  <1>10. ASSUME ~shared', ~cut' PROVE Sound'
    <2>1. Sound
      BY <1>1, <1>10 DEF IInv
    <2>2. ASSUME NEW f \in File PROVE Parses(file'[f]["bak"]) /\ (Parses(file'[f]["live"]) \/ Testing(f)')
      BY <1>4, <1>8, <2>1, <2>2 DEF Sound
    <2> QED
      BY <1>1, <2>2 DEF Sound, Parses
  <1>11. ASSUME Quiet' PROVE Ordered' /\ Told' /\ Floor'
    <2>1. Ordered /\ Told /\ Floor /\ Sound /\ Whole /\ file[g]["staged"] \in Version
      BY <1>1, <1>9, <1>11 DEF IInv, Quiet
    <2>2. \A f \in File, n \in Later : file[f][n] \in Version => file[f][n] \in Nat
      BY Contents
    <2>3. file[g]["bak"] \in Version =>
            file[g]["bak"] <= file[g]["staged"] /\ file[g]["bak"] = file[g]["live"]
      BY <1>1, <1>2, <2>1, <2>2 DEF Ordered, Later, g
    <2>4. file[g]["live"] \in Version =>
            file[g]["bak"] = file[g]["live"] /\ file[g]["live"] <= file[g]["staged"]
      BY <1>1, <1>2, <2>1 DEF Ordered, g
    <2>5. Ordered'
      <3>1. ASSUME NEW f \in File
            PROVE  /\ file'[f]["live"] \in Version /\ file'[f]["staged"] \in Version =>
                        file'[f]["live"] <= file'[f]["staged"]
                   /\ file'[f]["bak"] \in Version =>
                        file'[f]["live"] \in Version /\ file'[f]["bak"] <= file'[f]["live"]
        <4>1. CASE f = g
          BY <1>5, <1>8, <2>1, <2>3, <4>1, Contents
        <4>2. CASE f # g
          BY <1>8, <2>1, <4>2 DEF Ordered
        <4> QED
          BY <4>1, <4>2
      <3> QED
        BY <1>3, <3>1 DEF Ordered
    <2>6. CASE g = "apps.conf"
      <3>1. Testing("apps.conf")' /\ Conf' = file[g]["staged"] /\ Conf = file[g]["live"]
        BY <1>4, <1>2, <1>5, <2>6 DEF Conf
      <3>2. ASSUME nginx.run # "down", nginx.conf \in Version
            PROVE  /\ Conf' \in Version /\ nginx.conf <= Conf'
                   /\ file'["apps.conf"]["bak"] \in Version /\ nginx.conf <= file'["apps.conf"]["bak"]
        <4>1. Conf \in Version /\ nginx.conf <= Conf
          BY <2>1, <3>2 DEF Floor
        <4>2. file[g]["bak"] = Conf /\ Conf <= Conf'
          BY <2>4, <3>1, <4>1
        <4>3. nginx.conf \in Nat /\ Conf \in Nat /\ Conf' \in Nat
          BY <2>1, <3>1, <3>2, <4>1, Contents
        <4> QED
          BY <1>8, <2>1, <2>6, <3>1, <4>1, <4>2, <4>3 DEF File
      <3> QED
        BY <1>1, <2>5, <3>1, <3>2 DEF Told, Floor
    <2>7. CASE g # "apps.conf"
      <3>1. "apps.conf" \in File \ {g}
        BY <2>7 DEF File
      <3>2. Conf' = Conf /\ file'["apps.conf"]["bak"] = file["apps.conf"]["bak"] /\ ~Testing("apps.conf")
        BY <1>4, <1>8, <3>1 DEF Conf
      <3> QED
        BY <1>1, <2>1, <2>5, <3>2 DEF Told, Floor, Parses
    <2> QED
      BY <2>6, <2>7
  <1>12. ASSUME Quiet' PROVE \A f \in File : Reached(f) => db \in {file'[f]["staged"], file'[f]["live"]}
    <2>1. Ordered /\ FileBound /\ file[g]["staged"] \in Version
      BY <1>1, <1>9, <1>12 DEF IInv, Quiet
    <2>2. db \in Version
      BY <1>2 DEF Types
    <2>3. Reached(g) => db = file[g]["staged"]
      <3>1. file[g]["staged"] <= db /\ file[g]["staged"] \in Nat
        BY <1>2, <2>1, Contents DEF FileBound, Later
      <3>2. db = file[g]["live"] => db <= file[g]["staged"]
        BY <1>2, <2>1, <2>2 DEF Ordered
      <3> QED
        BY <1>2, <3>1, <3>2 DEF Reached
    <2> QED
      BY <1>5, <1>8, <2>3 DEF Reached
  <1> QED
    BY <1>1, <1>6, <1>7, <1>8, <1>9, <1>10, <1>11, <1>12, InstallerStep

LEMMA RollBackStep ==
  ASSUME IInv, RollBack PROVE IInv'
  <1> DEFINE g == This
  <1>1. /\ nginx.run # "down" /\ reloader.pc = "test" /\ ~Parses(file[g]["live"])
        /\ file' = Moved(g, "bak", "live")
        /\ pub' = Follow(g, "bak", "live")
        /\ reloader' = [reloader EXCEPT !.pc = "clean"]
        /\ UNCHANGED <<db, signalled, nginx, restarts, cut, shared, overtaken>>
    BY DEF RollBack, Up, history
  <1>2. /\ Types /\ g \in File /\ "bak" \in Place /\ "live" \in Place /\ db \in Nat /\ db \in Version
    BY Names, Contents DEF IInv, Types, Place
  <1>3. reloader' \in Reloader /\ reloader'.pc = "clean"
    BY <1>1, <1>2, TurnIs
  <1>4. /\ \A f \in File : Testing(f) <=> f = g
        /\ \A f \in File : ~Testing(f)'
    BY <1>1, <1>3 DEF Testing
  <1> HIDE DEF g
  <1>5. /\ file' \in [File -> [Place -> Content]]
        /\ file'[g]["live"] = file[g]["bak"] /\ file'[g]["bak"] = Absent
        /\ \A m \in Place \ {"bak", "live"} : file'[g][m] = file[g][m]
        /\ \A f \in File \ {g} : \A m \in Place : file'[f][m] = file[f][m]
    BY <1>1, <1>2, MovedIs, Zenon
  <1>6. SameCalls /\ pub' \in [Publisher -> Pub]
    <2>1. \A p \in Publisher : pub[p].handle = "writing" => pub[p].handle \notin {"bak", "live"}
      OBVIOUS
    <2> QED
      BY <1>1, <1>2, <2>1, FollowIs DEF SameCalls
  <1>7. Types'
    BY <1>1, <1>2, <1>3, <1>5, <1>6 DEF Types
  <1>8. /\ \A f \in File : /\ file'[f]["writing"] = file[f]["writing"]
                           /\ file'[f]["staged"] = file[f]["staged"]
        /\ \A f \in File \ {g} : /\ file'[f]["bak"] = file[f]["bak"]
                                 /\ file'[f]["live"] = file[f]["live"]
    BY <1>2, <1>5 DEF Place
  <1>9. ASSUME ~shared' PROVE Whole' /\ FileBound'
    <2>1. Whole /\ FileBound
      BY <1>1, <1>9 DEF IInv
    <2>2. Whole'
      BY <1>2, <1>3, <1>5, <1>8, <2>1 DEF Whole, Later
    <2>3. FileBound'
      BY <1>1, <1>2, <1>5, <1>8, <2>1, Contents DEF FileBound, Later
    <2> QED
      BY <2>2, <2>3
  <1>10. ASSUME ~shared', ~cut' PROVE Sound'
    <2>1. Sound
      BY <1>1, <1>10 DEF IInv
    <2>2. ASSUME NEW f \in File PROVE Parses(file'[f]["bak"]) /\ Parses(file'[f]["live"])
      <3>1. CASE f = g
        BY <1>5, <2>1, <3>1, Contents DEF Sound
      <3>2. CASE f # g
        BY <1>4, <1>8, <2>1, <3>2 DEF Sound
      <3> QED
        BY <3>1, <3>2
    <2> QED
      BY <1>1, <2>2 DEF Sound, Parses
  <1>11. ASSUME Quiet'
         PROVE  Ordered /\ Told /\ Floor /\ Sound /\ Whole /\ FileBound
    BY <1>1, <1>11 DEF IInv, Quiet
  \* What is refused is not the table as it is, or that is no table nginx takes.
  <1>12. db \notin Bad => file[g]["live"] # db
    BY <1>1, <1>2, Contents
  <1>13. ASSUME Quiet' PROVE Ordered'
    <2>1. ASSUME NEW f \in File
          PROVE  /\ file'[f]["live"] \in Version /\ file'[f]["staged"] \in Version =>
                      file'[f]["live"] <= file'[f]["staged"]
                 /\ file'[f]["bak"] \in Version =>
                      file'[f]["live"] \in Version /\ file'[f]["bak"] <= file'[f]["live"]
      <3>1. CASE f = g
        <4>1. file'[g]["bak"] \notin Version
          BY <1>5, Contents
        <4>2. ASSUME file[g]["bak"] \in Version, file[g]["staged"] \in Version
              PROVE  file[g]["bak"] <= file[g]["staged"]
          <5>1. /\ file[g]["live"] \in Version
                /\ file[g]["bak"] <= file[g]["live"] /\ file[g]["live"] <= file[g]["staged"]
            BY <1>2, <1>11, <1>13, <4>2 DEF Ordered
          <5>2. file[g]["bak"] \in Nat /\ file[g]["live"] \in Nat /\ file[g]["staged"] \in Nat
            BY <4>2, <5>1, Contents
          <5> QED
            BY <5>1, <5>2
        <4> QED
          BY <1>2, <1>5, <1>8, <3>1, <4>1, <4>2
      <3>2. CASE f # g
        BY <1>8, <1>11, <1>13, <3>2 DEF Ordered
      <3> QED
        BY <3>1, <3>2
    <2> QED
      BY <1>3, <2>1 DEF Ordered
  <1>14. ASSUME Quiet' PROVE Told' /\ Floor'
    <2>1. CASE g = "apps.conf"
      <3>1. Conf = file[g]["live"] /\ Conf' = file[g]["bak"] /\ ~Parses(Conf)
        BY <1>1, <1>2, <1>5, <2>1 DEF Conf
      <3>2. Parses(Conf')
        BY <1>2, <1>11, <1>14, <3>1 DEF Sound
      <3>3. Conf' = db => db \in Bad
        <4>1. SUFFICES ASSUME Conf' = db, db \notin Bad PROVE FALSE
          OBVIOUS
        <4>2. /\ file[g]["live"] \in Version /\ db <= file[g]["live"]
              /\ file[g]["live"] <= db
          BY <1>2, <1>11, <1>14, <3>1, <4>1 DEF Ordered, FileBound, Later
        <4>3. file[g]["live"] = db
          <5>1. file[g]["live"] \in Nat
            BY <4>2, Contents
          <5> QED
            BY <1>2, <4>2, <5>1
        <4> QED
          BY <1>12, <4>1, <4>3
      <3>4. nginx.run # "down" /\ nginx.conf \in Version => Conf' \in Version /\ nginx.conf <= Conf'
        BY <1>11, <1>14, <2>1, <3>1 DEF Floor
      <3> QED
        BY <1>1, <3>2, <3>3, <3>4 DEF Told, Floor, Parses
    <2>2. CASE g # "apps.conf"
      <3>1. "apps.conf" \in File \ {g}
        BY <2>2 DEF File
      <3>2. Conf' = Conf /\ file'["apps.conf"]["bak"] = file["apps.conf"]["bak"] /\ ~Testing("apps.conf")
        BY <1>4, <1>8, <3>1 DEF Conf
      <3> QED
        BY <1>1, <1>11, <1>14, <3>2 DEF Told, Floor, Parses
    <2> QED
      BY <2>1, <2>2
  <1>15. db \notin Bad => \A f \in File : Reached(f) => db \in {file'[f]["staged"], file'[f]["live"]}
    BY <1>8, <1>12 DEF Reached
  <1> QED
    BY <1>1, <1>6, <1>7, <1>8, <1>9, <1>10, <1>13, <1>14, <1>15, InstallerStep

-----------------------------------------------------------------------------
(* nginx, and its container.                                               *)

LEMMA NginxStep ==
  ASSUME IInv, Reload \/ Start \/ Serve PROVE IInv'
  <1>1. /\ UNCHANGED <<db, file, pub, reloader, restarts, cut, shared, overtaken>>
        /\ nginx.run # "down"
    BY DEF Reload, Start, Serve, history
  <1>2. Types /\ nginx \in Nginx /\ Conf \in Content /\ signalled \in BOOLEAN
    BY DEF IInv, Types, Conf, File, Place
  <1>3. /\ nginx' \in Nginx
        /\ \/ /\ nginx.run = "up" /\ nginx'.run = "up" /\ signalled' = FALSE
              /\ IF Parses(Conf) THEN nginx'.conf = Conf ELSE nginx'.conf = nginx.conf
           \/ /\ nginx.run = "starting" /\ signalled' = signalled /\ nginx'.conf = Conf
              /\ nginx'.run = IF Parses(Conf) THEN "reading" ELSE "down"
           \/ /\ nginx.run = "reading" /\ nginx'.run = "up" /\ nginx'.conf = nginx.conf /\ signalled' = signalled
    <2>1. CASE Reload
      BY <1>2, <2>1 DEF Reload, Nginx
    <2>2. CASE Start
      BY <1>2, <2>2 DEF Start, Nginx
    <2>3. CASE Serve
      BY <1>2, <2>3 DEF Serve, Nginx
    <2> QED
      BY <2>1, <2>2, <2>3
  <1>4. Types'
    <2>1. signalled' \in BOOLEAN
      BY <1>2, <1>3
    <2> QED
      BY <1>1, <1>2, <1>3, <2>1 DEF Types
  <1>5. ASSUME ~shared' PROVE Whole'
    BY <1>1, <1>5 DEF IInv, Whole, This
  <1>6. Conf' = Conf /\ (\A f : Testing(f)' <=> Testing(f)) /\ "apps.conf" \in File
        /\ (Parses(Conf) <=> Parses(Conf)')
    BY <1>1 DEF Conf, Testing, This, File, Parses
  <1>7. ASSUME ~shared', ~cut' PROVE Sound'
    <2>1. Sound
      BY <1>1, <1>7 DEF IInv
    <2>2. nginx'.run = "down" => ~Parses(Conf)
      BY <1>1, <1>3
    <2>3. ~Parses(Conf) => Testing("apps.conf")
      BY <1>6, <2>1 DEF Sound, Conf
    <2> QED
      BY <1>1, <1>6, <2>1, <2>2, <2>3 DEF Sound, Parses
  <1>8. ASSUME Quiet' PROVE Ordered' /\ Told' /\ Floor'
    <2>1. Ordered /\ Told /\ Floor /\ Whole
      BY <1>1, <1>8 DEF IInv, Quiet
    <2>2. Ordered'
      BY <1>1, <2>1 DEF Ordered, This
    <2>3. db \notin Bad /\ Conf = db => Parses(Conf)
      BY <1>2, Contents DEF Types
    <2>4. Told'
      BY <1>1, <1>3, <1>6, <2>1, <2>3 DEF Told
    <2>5. Conf \in Version => Conf \in Nat
      BY Contents
    <2>6. Floor'
      <3>1. file'["apps.conf"]["bak"] = file["apps.conf"]["bak"]
        BY <1>1
      <3> QED
        BY <1>1, <1>3, <1>6, <2>1, <2>5, <3>1 DEF Floor
    <2> QED
      BY <2>2, <2>4, <2>6
  <1> QED
    BY <1>1, <1>4, <1>5, <1>7, <1>8, LoopStep

LEMMA RestartStep ==
  ASSUME IInv, Restart PROVE IInv'
  <1>1. /\ restarts < MaxRestart /\ restarts' = restarts + 1
        /\ nginx' = [nginx EXCEPT !.run = "starting"] /\ signalled' = FALSE
        /\ cut' = (cut \/ reloader.pc = "test")
        /\ reloader' = [pc |-> "look", nth |-> 1]
        /\ UNCHANGED <<db, file, pub, shared, overtaken>>
    BY DEF Restart
  <1>2. Types /\ nginx \in Nginx /\ restarts \in 0..MaxRestart
    BY DEF IInv, Types
  <1>3. nginx' \in Nginx /\ nginx'.run = "starting" /\ nginx'.conf = nginx.conf
    BY <1>1, <1>2 DEF Nginx
  <1>4. /\ reloader' \in Reloader /\ reloader'.pc = "look" /\ restarts' \in 0..MaxRestart
        /\ cut' \in BOOLEAN /\ (cut => cut') /\ signalled' \in BOOLEAN
    <2>1. reloader' \in Reloader /\ reloader'.pc = "look"
      BY <1>1 DEF Reloader
    <2>2. signalled' \in BOOLEAN
      BY <1>1
    <2>3. restarts' \in 0..MaxRestart
      BY <1>1, <1>2
    <2>4. cut' \in BOOLEAN /\ (cut => cut')
      BY <1>1, <1>2, Zenon DEF Types
    <2> QED
      BY <2>1, <2>2, <2>3, <2>4
  <1>5. Types'
    BY <1>1, <1>2, <1>3, <1>4 DEF Types
  <1>6. ASSUME ~shared' PROVE Whole'
    BY <1>1, <1>4, <1>6 DEF IInv, Whole
  <1>7. ASSUME ~shared', ~cut' PROVE Sound /\ \A f \in File : Parses(file[f]["live"])
    BY <1>1, <1>7 DEF IInv, Sound, Testing
  <1>8. ASSUME ~shared', ~cut' PROVE Sound'
    BY <1>1, <1>3, <1>7, <1>8 DEF Sound, Parses
  <1>9. ASSUME Quiet' PROVE Ordered' /\ Told' /\ Floor'
    <2>1. Ordered /\ Floor /\ Sound /\ Parses(Conf) /\ "apps.conf" \in File
      BY <1>1, <1>7, <1>9 DEF IInv, Quiet, Conf, File
    <2>2. Ordered'
      BY <1>1, <1>4, <2>1 DEF Ordered
    <2>3. Told'
      BY <1>3 DEF Told
    <2>4. nginx.run # "down"
      BY <1>1, <1>9, <2>1 DEF Sound, Testing, Quiet
    <2>5. Floor'
      BY <1>1, <1>3, <2>1, <2>4 DEF Floor, Conf, Parses
    <2> QED
      BY <2>2, <2>3, <2>5
  <1> QED
    BY <1>1, <1>4, <1>5, <1>6, <1>8, <1>9, LoopStep

-----------------------------------------------------------------------------
LEMMA ConfStep ==
  ASSUME IInv, [Next]_vars PROVE IInv'
  <1>1. ASSUME NEW p \in Publisher, Change(p) PROVE IInv'
    BY <1>1, ChangeStep
  <1>2. ASSUME NEW p \in Publisher, Republish(p) \/ ReadRows(p) PROVE IInv'
    BY <1>2, BeginStep
  <1>3. ASSUME NEW p \in Publisher, OpenFile(p) PROVE IInv'
    BY <1>3, OpenStep
  <1>4. ASSUME NEW p \in Publisher, WriteFile(p) PROVE IInv'
    BY <1>4, WriteStep
  <1>5. ASSUME NEW p \in Publisher, RenameFile(p) PROVE IInv'
    BY <1>5, RenameStep
  <1>6. ASSUME NEW p \in Publisher, PublishFails(p) PROVE IInv'
    BY <1>6, FailStep
  <1>7. CASE Look
    BY <1>7, LookStep
  <1>8. CASE Backup
    BY <1>8, BackupStep
  <1>9. CASE Install
    BY <1>9, InstallStep
  <1>10. CASE Accept
    BY <1>10, AcceptStep
  <1>11. CASE RollBack
    BY <1>11, RollBackStep
  <1>12. CASE Clean
    BY <1>12, CleanStep
  <1>13. CASE Reload \/ Start \/ Serve
    BY <1>13, NginxStep
  <1>14. CASE Restart
    BY <1>14, RestartStep
  <1>15. CASE UNCHANGED vars
    <2>1. /\ UNCHANGED <<db, file, pub, reloader, signalled, nginx, restarts, cut, shared, overtaken>>
          /\ IInv
      BY <1>15 DEF vars, history
    <2> QED
      BY <2>1 DEF IInv, Types, RowsBound, Alone, Whole, FileBound, Sound, Quiet, Ordered, Arrived, Told,
                  Floor, Reached, Behind, Busy, FileOf, Testing, This, Conf, Parses
  <1> QED
    BY <1>1, <1>2, <1>3, <1>4, <1>5, <1>6, <1>7, <1>8, <1>9, <1>10, <1>11, <1>12, <1>13, <1>14, <1>15
       DEF Next, PublishNext, ReloadNext

\* Every state of ConfPublish satisfies IInv.
THEOREM ConfInvariance == Spec => []IInv
  BY InitConf, ConfStep, PTL DEF Spec

\* Whatever stage, install_staged and a restart do to a name, it has a rendering,
\* part of one, or nothing; and once install_staged has seen a file under the staged
\* name there is one until its mv: nobody else takes it away.
THEOREM ConfTypeCorrect == Spec => []TypeOK
  <1> DEFINE Seen == reloader.pc \in {"backup", "install"} => file[This]["staged"] # Absent
  <1>1. Init => Seen
    BY DEF Init
  <1>2. ASSUME IInv, Seen, [Next]_vars PROVE Seen'
    <2>1. Types /\ This \in File /\ reloader \in Reloader
      BY <1>2, Names DEF IInv, Types
    <2>2. CASE UNCHANGED <<file, reloader>>
      BY <1>2, <2>2 DEF This
    <2>3. ASSUME NEW f \in File, NEW n \in Place, NEW c \in Content, c # Absent,
                 file' = [file EXCEPT ![f][n] = c], UNCHANGED reloader
          PROVE  Seen'
      <3>0. Types /\ file' = [file EXCEPT ![f][n] = c]
        BY <2>1, <2>3
      <3> HIDE DEF Seen
      <3>1. /\ file'[f][n] = c /\ \A m \in Place \ {n} : file'[f][m] = file[f][m]
            /\ \A g \in File \ {f} : \A m \in Place : file'[g][m] = file[g][m]
        BY <3>0, PutIs
      <3>3. "staged" \in Place /\ This' = This
        BY <2>3 DEF Place, This
      <3>4. file[This]["staged"] # Absent => file'[This]["staged"] # Absent
        BY <2>1, <2>3, <3>1, <3>3
      <3> QED
        BY <1>2, <2>3, <3>3, <3>4 DEF Seen
    <2>4. ASSUME NEW p \in Publisher, OpenFile(p) \/ WriteFile(p) \/ PublishFails(p) PROVE Seen'
      <3>1. /\ Name(pub[p].nth) \in File /\ pub[p].rows \in Version
            /\ pub[p].handle \in Place \cup {"none"} /\ "writing" \in Place
        BY <2>1, Names DEF Types, Pub, FileOf, Place
      <3>2. \A v \in Version : v \in Content /\ v # Absent
        BY Contents
      <3>3. Empty \in Content /\ Mixed \in Content /\ Empty # Absent /\ Mixed # Absent
        BY Contents, ConfAssumption
      <3>4. UNCHANGED reloader
        BY <2>4 DEF OpenFile, WriteFile, PublishFails
      <3>5. \/ UNCHANGED file
            \/ \E f \in File, n \in Place, c \in Content : c # Absent /\ file' = [file EXCEPT ![f][n] = c]
        <4>1. CASE OpenFile(p)
          BY <3>1, <3>3, <4>1 DEF OpenFile
        <4>2. CASE WriteFile(p)
          <5>1. CASE pub[p].handle = "none"
            BY <4>2, <5>1 DEF WriteFile
          <5>2. CASE pub[p].handle # "none"
            <6>1. PICK c \in {pub[p].rows, Mixed} :
                    file' = [file EXCEPT ![Name(pub[p].nth)][pub[p].handle] = c]
              BY <4>2, <5>2 DEF WriteFile
            <6>2. c \in Content /\ c # Absent /\ pub[p].handle \in Place
              BY <3>1, <3>2, <3>3, <5>2
            <6> QED
              BY <3>1, <6>1, <6>2
          <5> QED
            BY <5>1, <5>2
        <4>3. CASE PublishFails(p)
          BY <3>1, <3>3, <4>3 DEF PublishFails
        <4> QED
          BY <2>4, <4>1, <4>2, <4>3
      <3>6. CASE UNCHANGED file
        BY <2>2, <3>4, <3>6
      <3> QED
        BY <2>3, <3>4, <3>5, <3>6
    <2>5. ASSUME NEW p \in Publisher, RenameFile(p) PROVE Seen'
      <3>1. /\ file'[FileOf(p)]["staged"] # Absent /\ UNCHANGED reloader
            /\ \A g \in File \ {FileOf(p)} : \A n \in Place : file'[g][n] = file[g][n]
        BY <2>1, <2>5, RenameIs
      <3>2. This' = This /\ "staged" \in Place
        BY <3>1 DEF This, Place
      <3> QED
        BY <1>2, <2>1, <3>1, <3>2
    <2>6. CASE Look
      <3>1. This' = This \/ reloader'.pc = "look"
        BY <2>1, <2>6 DEF Look, Turn, This, Reloader
      <3>2. UNCHANGED file /\ (reloader'.pc = "look" \/ file[This]["staged"] # Absent)
        BY <2>1, <2>6 DEF Look, Turn, Reloader
      <3> QED
        BY <3>1, <3>2
    <2>7. CASE Backup
      <3>1. reloader.pc = "backup" /\ This' = This
        BY <2>1, <2>7 DEF Backup, This, Reloader
      <3>2. file'[This]["staged"] = file[This]["staged"]
        <4>1. CASE UNCHANGED file
          BY <3>1, <4>1
        <4>2. CASE file' = [file EXCEPT ![This]["bak"] = file[This]["live"]]
          <5>1. file[This]["live"] \in Content /\ "bak" \in Place
            BY <2>1 DEF Types, Place
          <5>2. \A m \in Place \ {"bak"} : file'[This][m] = file[This][m]
            BY <2>1, <4>2, <5>1, PutIs
          <5> QED
            BY <3>1, <5>2 DEF Place
        <4> QED
          BY <2>7, <4>1, <4>2 DEF Backup
      <3> QED
        BY <1>2, <3>1, <3>2
    <2>8. CASE Install \/ Accept \/ RollBack \/ Clean \/ Restart
      BY <2>1, <2>8 DEF Install, Accept, RollBack, Clean, Turn, Restart, Reloader
    <2> QED
      BY <1>2, <2>2, <2>4, <2>5, <2>6, <2>7, <2>8
         DEF Next, PublishNext, ReloadNext, Change, Republish, ReadRows, Reload, Start, Serve, vars
  <1>3. IInv /\ Seen => TypeOK
    BY DEF IInv, TypeOK
  <1> QED
    BY <1>1, <1>2, <1>3, ConfInvariance, PTL DEF Spec

\* nginx.rs stage writes under one name and renames: install_staged installs the
\* whole rendering of one version, however many calls fail half-way, unless two
\* had the name open at once.
THEOREM AlwaysWholeUnlessShared == Spec => []WholeUnlessShared
  <1>1. IInv => WholeUnlessShared
    BY DEF IInv, Whole, WholeUnlessShared
  <1> QED
    BY <1>1, ConfInvariance, PTL

\* What nginx would start on parses, or install_staged is testing it and will
\* roll it back -- whatever the admins write and whenever nginx starts, but for a
\* restart inside a test and for two calls with one name open.
THEOREM AlwaysLiveParses == Spec => []LiveParses
  <1>1. IInv => LiveParses
    BY DEF IInv, Sound, Testing, LiveParses
  <1> QED
    BY <1>1, ConfInvariance, PTL

\* When every publish_conf has answered "staged" and install_staged has nothing
\* left, nginx runs the table as it is, and break-glass would, but for the races
\* the histories name.
THEOREM RunsTheTable == Spec => []RunsTheTableUnlessRaced
  <1>1. ASSUME IInv PROVE RunsTheTableUnlessRaced
    <2> SUFFICES ASSUME Settled, db \notin Bad, ~shared, ~cut, ~overtaken
                 PROVE  nginx.conf = db /\ file["breakglass.apps"]["live"] = db
      BY DEF RunsTheTableUnlessRaced
    <2>1. Arrived /\ Told /\ db \in Version
      BY <1>1 DEF IInv, Quiet, Types
    <2>2. \A p \in Publisher : ~Behind(p)
      BY DEF Settled, Behind
    <2>3. \A f \in File : file[f]["live"] = db
      <3>1. \A f \in File : Reached(f)
        BY <2>1, <2>2 DEF Arrived
      <3> QED
        BY <2>1, <3>1, Contents DEF Reached, Settled
    <2>4. nginx.run = "up" /\ ~signalled /\ ~Testing("apps.conf")
      BY DEF Settled, Testing
    <2> QED
      BY <2>1, <2>3, <2>4 DEF Told, Conf, File
  <1> QED
    BY <1>1, ConfInvariance, PTL

\* Neither a reload nor a start takes nginx back to rows older than those it has
\* served, but for the same.
THEOREM NeverGoesBack == Spec => NeverBack
  <1> DEFINE Forward == {nginx.conf, nginx'.conf} \subseteq Version /\ nginx'.conf < nginx.conf =>
                          overtaken \/ shared \/ cut
  <1>1. ASSUME IInv, [Next]_vars PROVE [Forward]_nginx
    <2> SUFFICES ASSUME nginx.conf \in Version, nginx'.conf \in Version, nginx' # nginx, Quiet
                 PROVE  ~(nginx'.conf < nginx.conf)
      BY DEF Quiet
    <2>1. Floor /\ nginx \in Nginx /\ nginx.conf \in Nat /\ nginx'.conf \in Nat
      BY <1>1, Contents DEF IInv, Types
    <2>2. CASE nginx'.conf = nginx.conf
      BY <2>1, <2>2
    <2>3. CASE nginx.run # "down" /\ nginx'.conf = Conf
      BY <2>1, <2>3 DEF Floor
    <2>4. nginx'.conf = nginx.conf \/ (nginx.run # "down" /\ nginx'.conf = Conf)
      <3>1. CASE Reload
        BY <2>1, <3>1 DEF Reload, Nginx
      <3>2. CASE Start
        BY <2>1, <3>2 DEF Start, Nginx
      <3>3. CASE Serve \/ Restart
        BY <2>1, <3>3 DEF Serve, Restart, Nginx
      <3>4. CASE PublishNext \/ ReloadNext \/ UNCHANGED vars
        BY <3>4 DEF PublishNext, Change, Republish, ReadRows, OpenFile, WriteFile, RenameFile, PublishFails,
                    ReloadNext, Look, Backup, Install, Accept, RollBack, Clean, vars
      <3> QED
        BY <1>1, <3>1, <3>2, <3>3, <3>4 DEF Next
    <2> QED
      BY <2>2, <2>3, <2>4
  <1> QED
    BY <1>1, ConfInvariance, PTL DEF Spec, NeverBack
=============================================================================
