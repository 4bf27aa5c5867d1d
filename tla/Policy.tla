--------------------------------- MODULE Policy ---------------------------------
(***************************************************************************)
(* What a request for a path is answered, as a function of the rules.      *)
(*                                                                         *)
(* A path is a sequence of characters as they arrive, where an escape      *)
(* "%XX" is one character until it is decoded.  "%zz" stands for whatever   *)
(* decoding refuses: half an escape, a control byte, bytes that are no text.*)
(***************************************************************************)
EXTENDS Integers, Sequences, SequencesExt

\* One round of decoding; and ASCII case.
Escape == [c \in {"%2f", "%5c", "%2e", "%41", "%3f", "%25"} |->
             CASE c = "%2f" -> "/" [] c = "%5c" -> "\\" [] c = "%2e" -> "."
               [] c = "%41" -> "A" [] c = "%3f" -> "?" [] c = "%25" -> "%"]
PercentDecode(s) == [i \in DOMAIN s |-> IF s[i] \in DOMAIN Escape THEN Escape[s[i]] ELSE s[i]]
LowerCase(s)     == [i \in DOMAIN s |-> IF s[i] = "A" THEN "a" ELSE s[i]]
Slashes(s)       == [i \in DOMAIN s |-> IF s[i] = "\\" THEN "/" ELSE s[i]]

\* The part of s before the first c.
Before(s, c) == SelectInSeq(s, LAMBDA x : x = c)
UpTo(s, c)   == IF Before(s, c) = 0 THEN s ELSE SubSeq(s, 1, Before(s, c) - 1)

\* s without the characters c it ends with.
TrimEnd(s, c) == SubSeq(s, 1, SelectLastInSeq(s, LAMBDA x : x # c))

Split(s) ==
  FoldLeft(LAMBDA segs, c : IF c = "/" THEN Append(segs, <<>>)
                            ELSE [segs EXCEPT ![Len(segs)] = Append(@, c)],
           << <<>> >>, s)
Join(segs) == FoldLeft(LAMBDA s, seg : s \o <<"/">> \o seg, <<>>, segs)

Dot    == <<".">>
DotDot == <<".", ".">>

\* Empty and "." segments go, ".." takes one back and stops at the root; a
\* slash at the end stays.
Resolve(s) ==
  LET segs == Split(s)
      kept == FoldLeft(LAMBDA up, seg : IF seg \in {<<>>, Dot} THEN up
                                        ELSE IF seg = DotDot
                                        THEN IF up = <<>> THEN up ELSE Front(up)
                                        ELSE Append(up, seg),
                       <<>>, segs)
  IN IF kept = <<>> THEN <<"/">>
     ELSE Join(kept) \o IF Last(segs) \in {<<>>, Dot, DotDot} THEN <<"/">> ELSE <<>>

\* No path is empty.
Refused == <<>>

Normalise(uri) ==
  LET path    == UpTo(uri, "?")
      decoded == PercentDecode(path)
  IN IF \/ path = <<>> \/ path[1] # "/"
        \/ {"#", "%zz"} \cap ToSet(path) # {} \/ "%" \in ToSet(decoded)
     THEN Refused
     ELSE LowerCase(Resolve(Slashes(decoded)))

\* The path with the parameters of every segment dropped.
Unparametered(path) ==
  LET segs == Split(path) IN Join([i \in 1..(Len(segs) - 1) |-> UpTo(segs[i + 1], ";")])

\* (Deviation: only one reading.)
ReadingsOne(uri) == {Normalise(uri)}

\* (Deviation: the readings that resolve first keep the case they came with.)
ReadingsCased(uri) ==
  LET path == UpTo(uri, "?") IN
  IF Normalise(uri) = Refused THEN {}
  ELSE {Normalise(uri)} \cup {PercentDecode(Resolve(p)) : p \in {path, Unparametered(path)}}

\* Decoded then resolved; resolved then decoded; the same without parameters.
Readings(uri) ==
  LET path == UpTo(uri, "?") IN
  IF Normalise(uri) = Refused THEN {}
  ELSE {Normalise(uri)} \cup
       {LowerCase(PercentDecode(Resolve(p))) : p \in {path, Unparametered(path)}}

Base(pattern) == TrimEnd(LowerCase(Resolve(TrimEnd(pattern, "*"))), "/")

Matches(pattern, path) ==
  LET base == Base(pattern) IN
  \/ base = <<>>
  \/ path = base
  \/ IsStrictPrefix(base, path) /\ path[Len(base) + 1] = "/"

\* expires is {} or the one instant a rule ends at.
Live(r, now) == \A e \in r.expires : e > now

Hit(rules, effect, path, now) ==
  \E i \in DOMAIN rules :
    Live(rules[i], now) /\ rules[i].effect = effect /\ Matches(rules[i].pattern, path)

DecidePath(rules, path, now) ==
  IF Hit(rules, "deny", path, now) THEN "explicit_deny"
  ELSE IF Hit(rules, "allow", path, now) THEN "allow"
  ELSE "no_matching_grant"

Decide(enabled, rules, uri, now) ==
  LET verdicts == {DecidePath(rules, path, now) : path \in Readings(uri)} IN
  IF verdicts = {} THEN "malformed_uri"
  ELSE IF ~enabled THEN "application_disabled"
  ELSE IF "explicit_deny" \in verdicts THEN "explicit_deny"
  ELSE IF verdicts = {"allow"} THEN "allow"
  ELSE "no_matching_grant"

\* (Deviation: a rule has ended here an instant before it does in Live.)
ExplainLate(rules, uri, now) ==
  [i \in DOMAIN rules |->
    [matched |-> Normalise(uri) # Refused /\ Matches(rules[i].pattern, Normalise(uri)),
     expired |-> \E e \in rules[i].expires : e <= now + 1]]

\* What the explain screen says of each rule.
Explain(rules, uri, now) ==
  [i \in DOMAIN rules |->
    [matched |-> Normalise(uri) # Refused /\ Matches(rules[i].pattern, Normalise(uri)),
     expired |-> \E e \in rules[i].expires : e <= now]]

\* (Deviation: whatever normalise accepts.)
ValidPatternAny(raw) ==
  \/ raw = <<>>
  \/ /\ Len(raw) >= 2 /\ SubSeq(raw, Len(raw) - 1, Len(raw)) = <<"/", "*">>
     /\ "*" \notin ToSet(Front(raw))
     /\ Normalise(Front(raw)) # Refused

\* What the management API stores.
ValidPattern(raw) ==
  \/ raw = <<>>
  \/ /\ Len(raw) >= 2 /\ SubSeq(raw, Len(raw) - 1, Len(raw)) = <<"/", "*">>
     /\ "*" \notin ToSet(Front(raw))
     /\ Normalise(Front(raw)) = Front(raw)
=============================================================================
