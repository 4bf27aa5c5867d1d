----------------------------- MODULE PolicyProofs -----------------------------
(***************************************************************************)
(* Proofs about Policy and Registration, for rules, paths and texts of any *)
(* number and length.  What the folds compute over a sequence is proved by *)
(* LeftFold, one element at a time.                                        *)
(***************************************************************************)
EXTENDS MCPolicy, SequenceTheorems, FiniteSetTheorems, TLAPS

\* The rules that count for a path.
Grants(rs, path, t) ==
  {i \in DOMAIN rs : rs[i].effect = "allow" /\ Live(rs[i], t) /\ Matches(rs[i].pattern, path)}
Denies(rs, path, t) ==
  {i \in DOMAIN rs : rs[i].effect = "deny" /\ Live(rs[i], t) /\ Matches(rs[i].pattern, path)}

LEMMA Verdicts ==
  ASSUME NEW rs, NEW path, NEW t
  PROVE  /\ DecidePath(rs, path, t) = "allow" <=> Grants(rs, path, t) # {} /\ Denies(rs, path, t) = {}
         /\ DecidePath(rs, path, t) = "explicit_deny" <=> Denies(rs, path, t) # {}
         /\ DecidePath(rs, path, t) \in {"allow", "explicit_deny", "no_matching_grant"}
  <1>1. Hit(rs, "allow", path, t) <=> Grants(rs, path, t) # {}
    BY DEF Hit, Grants
  <1>2. Hit(rs, "deny", path, t) <=> Denies(rs, path, t) # {}
    BY DEF Hit, Denies
  <1> QED
    BY <1>1, <1>2 DEF DecidePath

LEMMA NormalisedIsAReading ==
  ASSUME NEW u
  PROVE  /\ Readings(u) # {} => Normalise(u) # Refused
         /\ Normalise(u) # Refused => Normalise(u) \in Readings(u)
  BY DEF Readings

LEMMA PassesEveryReading ==
  ASSUME NEW enabled, NEW rs, NEW u, NEW t
  PROVE  Decide(enabled, rs, u, t) = "allow" <=>
           /\ enabled /\ Normalise(u) # Refused
           /\ \A path \in Readings(u) : Grants(rs, path, t) # {} /\ Denies(rs, path, t) = {}
  <1> DEFINE verdicts == {DecidePath(rs, path, t) : path \in Readings(u)}
  <1>1. Decide(enabled, rs, u, t) =
          IF verdicts = {} THEN "malformed_uri"
          ELSE IF ~enabled THEN "application_disabled"
          ELSE IF "explicit_deny" \in verdicts THEN "explicit_deny"
          ELSE IF verdicts = {"allow"} THEN "allow"
          ELSE "no_matching_grant"
    BY DEF Decide
  <1>2. verdicts # {} <=> Normalise(u) # Refused
    BY DEF Readings
  <1>3. verdicts = {"allow"} <=>
          verdicts # {} /\ \A path \in Readings(u) : DecidePath(rs, path, t) = "allow"
    OBVIOUS
  <1>4. \A path \in Readings(u) : DecidePath(rs, path, t) = "allow" <=>
          Grants(rs, path, t) # {} /\ Denies(rs, path, t) = {}
    BY Verdicts
  <1> HIDE DEF verdicts
  <1> QED
    BY <1>1, <1>2, <1>3, <1>4

-----------------------------------------------------------------------------
\* rules_for sorts nothing, and a rule of two groups may come twice: policy.rs
\* decides by which rules there are, for every path, time and number of rules.
THEOREM OrderDecidesNothing ==
  ASSUME NEW enabled, NEW rs, NEW qs, NEW u, NEW t, ToSet(rs) = ToSet(qs)
  PROVE  Decide(enabled, rs, u, t) = Decide(enabled, qs, u, t)
  <1>1. /\ \A i \in DOMAIN rs : \E j \in DOMAIN qs : rs[i] = qs[j]
        /\ \A j \in DOMAIN qs : \E i \in DOMAIN rs : rs[i] = qs[j]
    BY DEF ToSet
  <1>2. \A effect, path : Hit(rs, effect, path, t) <=> Hit(qs, effect, path, t)
    BY <1>1 DEF Hit
  <1>3. \A path : DecidePath(rs, path, t) = DecidePath(qs, path, t)
    BY <1>2 DEF DecidePath
  <1> QED
    BY <1>3 DEF Decide

\* A deny more or a grant fewer lets nothing through that decide would have
\* refused, whichever reading of the path the rule is about.
THEOREM NoRuleWidens ==
  ASSUME NEW enabled, NEW rs, NEW qs, NEW u, NEW t,
         \A r \in ToSet(qs) : r.effect = "allow" => r \in ToSet(rs),
         \A r \in ToSet(rs) : r.effect = "deny" => r \in ToSet(qs),
         Decide(enabled, qs, u, t) = "allow"
  PROVE  Decide(enabled, rs, u, t) = "allow"
  <1>1. /\ \A j \in DOMAIN qs : qs[j].effect = "allow" => \E i \in DOMAIN rs : rs[i] = qs[j]
        /\ \A i \in DOMAIN rs : rs[i].effect = "deny" => \E j \in DOMAIN qs : rs[i] = qs[j]
    BY DEF ToSet
  <1>2. \A path : Grants(qs, path, t) # {} => Grants(rs, path, t) # {}
    BY <1>1 DEF Grants
  <1>3. \A path : Denies(qs, path, t) = {} => Denies(rs, path, t) = {}
    BY <1>1 DEF Denies
  <1>4. /\ enabled /\ Normalise(u) # Refused
        /\ \A path \in Readings(u) : Grants(qs, path, t) # {} /\ Denies(qs, path, t) = {}
    BY PassesEveryReading
  <1> QED
    BY <1>2, <1>3, <1>4, PassesEveryReading

\* A deny that is live and matches one reading refuses the request, whatever
\* grants there are under any of them.
THEOREM DenyOverrides ==
  ASSUME NEW enabled, NEW rs, NEW u, NEW t, NEW path \in Readings(u),
         Denies(rs, path, t) # {}
  PROVE  Decide(enabled, rs, u, t) \in {"application_disabled", "explicit_deny"}
  <1> DEFINE verdicts == {DecidePath(rs, p, t) : p \in Readings(u)}
  <1>1. "explicit_deny" \in verdicts
    BY Verdicts
  <1>2. Decide(enabled, rs, u, t) =
          IF verdicts = {} THEN "malformed_uri"
          ELSE IF ~enabled THEN "application_disabled"
          ELSE IF "explicit_deny" \in verdicts THEN "explicit_deny"
          ELSE IF verdicts = {"allow"} THEN "allow"
          ELSE "no_matching_grant"
    BY DEF Decide
  <1> HIDE DEF verdicts
  <1> QED
    BY <1>1, <1>2

-----------------------------------------------------------------------------
RulesOK == rules \in Seq(Rule)

LEMMA RulesAlwaysOK == Spec => []RulesOK
  <1>1. Init => RulesOK
    BY DEF Init, RulesOK
  <1>2. RulesOK /\ [Next]_vars => RulesOK'
    BY DEF RulesOK, Next, Longer, OneMore, Type, vars
  <1> QED
    BY <1>1, <1>2, PTL DEF Spec

\* The explain screen names one reading where decide asked three: for every
\* request that passes it names a live grant and no live deny.
THEOREM GrantIsAlwaysShown == Spec => []GrantIsShown
  <1>1. ASSUME RulesOK PROVE GrantIsShown
    <2> DEFINE shown == Explain(rules, uri, now)
               Counts(i) == shown[i].matched /\ ~shown[i].expired
               path == Normalise(uri)
    <2>1. SUFFICES ASSUME Verdict = "allow"
                   PROVE  /\ \E i \in DOMAIN rules : Counts(i) /\ rules[i].effect = "allow"
                          /\ \A i \in DOMAIN rules : Counts(i) => rules[i].effect = "allow"
      BY DEF GrantIsShown
    <2>2. Decide(TRUE, rules, uri, now) = "allow"
      BY <2>1 DEF Verdict
    <2>3. path # Refused /\ path \in Readings(uri)
      BY <2>2, PassesEveryReading, NormalisedIsAReading
    <2>4. Grants(rules, path, now) # {} /\ Denies(rules, path, now) = {}
      BY <2>2, <2>3, PassesEveryReading
    <2>5. ASSUME NEW i \in DOMAIN rules
          PROVE  /\ rules[i].effect \in {"allow", "deny"}
                 /\ Live(rules[i], now) <=> ~(\E e \in rules[i].expires : e <= now)
      <3>1. rules[i] \in Rule
        BY <1>1 DEF RulesOK
      <3>2. rules[i].expires \subseteq Int /\ rules[i].effect \in {"allow", "deny"}
        BY <3>1 DEF Rule
      <3> QED
        BY <3>2 DEF Live, now
    <2>6. ASSUME NEW i \in DOMAIN rules
          PROVE  Counts(i) <=> Live(rules[i], now) /\ Matches(rules[i].pattern, path)
      <3>1. shown[i] = [matched |-> path # Refused /\ Matches(rules[i].pattern, path),
                        expired |-> \E e \in rules[i].expires : e <= now]
        BY DEF Explain
      <3> HIDE DEF shown, path
      <3>2. shown[i].matched <=> Matches(rules[i].pattern, path)
        <4>1. shown[i].matched = (path # Refused /\ Matches(rules[i].pattern, path))
          BY <3>1
        <4> QED
          BY <2>3, <4>1, Zenon
      <3>3. ~shown[i].expired <=> Live(rules[i], now)
        <4>1. shown[i].expired = (\E e \in rules[i].expires : e <= now)
          BY <3>1
        <4> QED
          BY <2>5, <4>1, Zenon
      <3> QED
        BY <3>2, <3>3, Zenon
    <2> HIDE DEF Counts, path
    <2> QED
      BY <2>4, <2>5, <2>6 DEF Grants, Denies
  <1> QED
    BY <1>1, RulesAlwaysOK, PTL

-----------------------------------------------------------------------------
(***************************************************************************)
(* The folds, as LeftFold has them: x is what the operator is about.       *)
(***************************************************************************)
CutOp(x, labels, c) == IF c \in x THEN Append(labels, <<>>)
                       ELSE [labels EXCEPT ![Len(labels)] = Append(@, c)]

JoinOp(x, s, seg) == s \o x \o seg
KeepOp(x, up, seg) == IF seg \in x THEN up
                      ELSE IF seg = DotDot
                      THEN IF up = <<>> THEN up ELSE Front(up)
                      ELSE Append(up, seg)

Cut  == INSTANCE LeftFold WITH Op <- CutOp
Glue == INSTANCE LeftFold WITH Op <- JoinOp
Keep == INSTANCE LeftFold WITH Op <- KeepOp

\* A cut, character by character.
LEMMA LabelsStep ==
  ASSUME NEW x
  PROVE  /\ Labels(<<>>, x) = << <<>> >>
         /\ \A X : \A s \in Seq(X), c \in X : Labels(Append(s, c), x) = CutOp(x, Labels(s, x), c)
  <1>1. \A s : Labels(s, x) = Cut!Fold(x, << <<>> >>, s)
    BY DEF Labels, FoldLeft, MapThenFoldSet, Max, Cut!Fold, Cut!Iter, Cut!Step, Cut!Top, CutOp
  <1>2. Cut!Fold(x, << <<>> >>, <<>>) = << <<>> >>
    BY Cut!FoldEmpty
  <1>3. ASSUME NEW X, NEW s \in Seq(X), NEW c \in X
        PROVE  Cut!Fold(x, << <<>> >>, Append(s, c)) = CutOp(x, Cut!Fold(x, << <<>> >>, s), c)
    BY Cut!FoldAppend
  <1> QED
    BY <1>1, <1>2, <1>3

\* Split is the cut at "/".
LEMMA SplitIsLabels == \A s : Split(s) = Labels(s, {"/"})
  <1>1. ASSUME NEW s PROVE Split(s) = Cut!Fold({"/"}, << <<>> >>, s)
    BY DEF Split, FoldLeft, MapThenFoldSet, Max, Cut!Fold, Cut!Iter, Cut!Step, Cut!Top, CutOp
  <1>2. ASSUME NEW s PROVE Labels(s, {"/"}) = Cut!Fold({"/"}, << <<>> >>, s)
    BY DEF Labels, FoldLeft, MapThenFoldSet, Max, Cut!Fold, Cut!Iter, Cut!Step, Cut!Top, CutOp
  <1> QED
    BY <1>1, <1>2

LEMMA JoinStep ==
  /\ Join(<<>>) = <<>>
  /\ \A X : \A segs \in Seq(X), seg \in X : Join(Append(segs, seg)) = Join(segs) \o <<"/">> \o seg
  <1>1. \A segs : Join(segs) = Glue!Fold(<<"/">>, <<>>, segs)
    BY DEF Join, FoldLeft, MapThenFoldSet, Max, Glue!Fold, Glue!Iter, Glue!Step, Glue!Top, JoinOp
  <1>2. Glue!Fold(<<"/">>, <<>>, <<>>) = <<>>
    BY Glue!FoldEmpty
  <1>3. ASSUME NEW X, NEW segs \in Seq(X), NEW seg \in X
        PROVE  Glue!Fold(<<"/">>, <<>>, Append(segs, seg)) =
                 JoinOp(<<"/">>, Glue!Fold(<<"/">>, <<>>, segs), seg)
    BY Glue!FoldAppend
  <1>4. ASSUME NEW X, NEW segs \in Seq(X), NEW seg \in X
        PROVE  Join(Append(segs, seg)) = Join(segs) \o <<"/">> \o seg
    <2>1. Join(Append(segs, seg)) = JoinOp(<<"/">>, Join(segs), seg)
      BY <1>1, <1>3
    <2> QED
      BY <2>1 DEF JoinOp
  <1> QED
    BY <1>1, <1>2, <1>4

\* The segments that Resolve keeps.
Kept(segs) == Keep!Fold({<<>>, Dot}, <<>>, segs)

LEMMA KeptStep ==
  /\ Kept(<<>>) = <<>>
  /\ \A X : \A segs \in Seq(X), seg \in X :
       Kept(Append(segs, seg)) = KeepOp({<<>>, Dot}, Kept(segs), seg)
  <1>1. Kept(<<>>) = <<>>
    BY Keep!FoldEmpty DEF Kept
  <1>2. ASSUME NEW X, NEW segs \in Seq(X), NEW seg \in X
        PROVE  Kept(Append(segs, seg)) = KeepOp({<<>>, Dot}, Kept(segs), seg)
    BY Keep!FoldAppend DEF Kept
  <1> QED
    BY <1>1, <1>2

LEMMA ResolveIs ==
  ASSUME NEW s
  PROVE  Resolve(s) =
           IF Kept(Split(s)) = <<>> THEN <<"/">>
           ELSE Join(Kept(Split(s))) \o
                IF Last(Split(s)) \in {<<>>, Dot, DotDot} THEN <<"/">> ELSE <<>>
  BY DEF Resolve, FoldLeft, MapThenFoldSet, Max, Kept, Keep!Fold, Keep!Iter, Keep!Step, Keep!Top, KeepOp

\* A cut leaves sequences of what was cut, one at least.
LEMMA LabelsType ==
  ASSUME NEW X, NEW x
  PROVE  \A s \in Seq(X) : Labels(s, x) \in Seq(Seq(X)) /\ Len(Labels(s, x)) >= 1
  <1> DEFINE T == {s \in Seq(X) : Labels(s, x) \in Seq(Seq(X)) /\ Len(Labels(s, x)) >= 1}
  <1>1. <<>> \in T
    <2>1. <<>> \in Seq(X) /\ << <<>> >> \in Seq(Seq(X)) /\ Len(<< <<>> >>) >= 1
      OBVIOUS
    <2>2. Labels(<<>>, x) = << <<>> >>
      BY LabelsStep
    <2> QED
      BY <2>1, <2>2
  <1>2. ASSUME NEW s \in Seq(X), NEW c \in X, s \in T PROVE Append(s, c) \in T
    <2> DEFINE L == Labels(s, x)
    <2>1. L \in Seq(Seq(X)) /\ Len(L) \in 1..Len(L) /\ L[Len(L)] \in Seq(X)
      BY <1>2
    <2>2. Labels(Append(s, c), x) = CutOp(x, L, c)
      BY LabelsStep
    <2> HIDE DEF L
    <2>3. CutOp(x, L, c) \in Seq(Seq(X)) /\ Len(CutOp(x, L, c)) >= 1
      <3>1. CASE c \in x
        BY <2>1, <3>1 DEF CutOp
      <3>2. CASE c \notin x
        <4>1. Append(L[Len(L)], c) \in Seq(X)
          BY <2>1
        <4> QED
          BY <2>1, <3>2, <4>1, ExceptSeq DEF CutOp
      <3> QED
        BY <3>1, <3>2
    <2> QED
      BY <2>2, <2>3
  <1> HIDE DEF T
  <1>3. Seq(X) \subseteq T
    BY <1>1, <1>2, Cut!Appending
  <1> QED
    BY <1>3 DEF T

-----------------------------------------------------------------------------
(***************************************************************************)
(* labelled (validate.rs) against the CHECK constraints, character by      *)
(* character: a cut is clean so far when the regular expression is.        *)
(***************************************************************************)

\* Every label is good but the last, which has no wrong character yet.
Clean(labels) ==
  /\ \A i \in 1..Len(labels) : ToSet(labels[i]) \subseteq Lowercase
  /\ \A i \in 1..(Len(labels) - 1) : labels[i] # <<>>

\* Every character is right after the one before it.
Fitting(s, x) ==
  \A i \in 1..Len(s) : \/ s[i] \in Lowercase
                       \/ s[i] \in x /\ i > 1 /\ s[i - 1] \in Lowercase

LEMMA CleanCut ==
  ASSUME NEW X, NEW labels \in Seq(Seq(X)), Len(labels) >= 1
  PROVE  Clean(Append(labels, <<>>)) <=> Clean(labels) /\ labels[Len(labels)] # <<>>
  <1> DEFINE n == Len(labels)
             more == Append(labels, <<>>)
  <1>1. /\ n \in Nat /\ n >= 1 /\ Len(more) = n + 1 /\ more[n + 1] = <<>>
        /\ \A i \in 1..n : more[i] = labels[i]
    OBVIOUS
  <1>2. ToSet(<<>>) = {}
    BY DEF ToSet
  <1> HIDE DEF n, more
  <1>3. (\A i \in 1..(n + 1) : ToSet(more[i]) \subseteq Lowercase)
          <=> \A i \in 1..n : ToSet(labels[i]) \subseteq Lowercase
    BY <1>1, <1>2
  <1>4. (\A i \in 1..n : more[i] # <<>>)
          <=> (\A i \in 1..(n - 1) : labels[i] # <<>>) /\ labels[n] # <<>>
    <2>1. 1..n = 1..(n - 1) \cup {n}
      BY <1>1
    <2> QED
      BY <1>1, <2>1
  <1>5. (n + 1) - 1 = n
    BY <1>1
  <1> QED
    BY <1>1, <1>3, <1>4, <1>5 DEF Clean, n, more

LEMMA CleanLonger ==
  ASSUME NEW X, NEW labels \in Seq(Seq(X)), Len(labels) >= 1, NEW c \in X
  PROVE  LET more == [labels EXCEPT ![Len(labels)] = Append(@, c)] IN
         /\ Clean(more) <=> Clean(labels) /\ c \in Lowercase
         /\ Len(more) = Len(labels) /\ more[Len(more)] # <<>>
  <1> DEFINE n == Len(labels)
             last == Append(labels[n], c)
             more == [labels EXCEPT ![n] = last]
  <1>1. n \in Nat /\ n \in 1..n /\ labels[n] \in Seq(X)
    <2> HIDE DEF last, more
    <2>1. n \in Nat /\ n \in 1..n
      BY LenProperties
    <2> QED
      BY <2>1, ElementOfSeq
  <1>2. last \in Seq(X) /\ last # <<>>
    <2> DEFINE old == labels[n]
    <2>1. old \in Seq(X)
      BY <1>1
    <2> HIDE DEF old, more
    <2>2. Append(old, c) \in Seq(X) /\ Append(old, c) # <<>>
      BY <2>1, AppendProperties
    <2> QED
      BY <2>2 DEF old
  <1>3. ToSet(last) = ToSet(labels[n]) \cup {c}
    <2>1. /\ DOMAIN last = 1..(Len(labels[n]) + 1) /\ DOMAIN labels[n] = 1..Len(labels[n])
          /\ last[Len(labels[n]) + 1] = c /\ Len(labels[n]) \in Nat
          /\ \A i \in 1..Len(labels[n]) : last[i] = labels[n][i]
      BY <1>1
    <2>2. \A i \in DOMAIN last : last[i] \in ToSet(labels[n]) \cup {c}
      BY <2>1 DEF ToSet
    <2>3. ASSUME NEW y \in ToSet(labels[n]) PROVE \E i \in DOMAIN last : last[i] = y
      <3>1. PICK i \in 1..Len(labels[n]) : labels[n][i] = y
        BY <2>1 DEF ToSet
      <3>2. i \in DOMAIN last /\ last[i] = y
        BY <2>1, <3>1
      <3> QED
        BY <3>2
    <2>4. \E i \in DOMAIN last : last[i] = c
      BY <2>1
    <2> HIDE DEF last
    <2> QED
      BY <2>2, <2>3, <2>4 DEF ToSet
  <1> HIDE DEF last
  <1>4. Len(more) = n /\ more[n] = last /\ \A i \in 1..(n - 1) : more[i] = labels[i]
    BY <1>1, <1>2, ExceptSeq
  <1> HIDE DEF more
  <1>5. (\A i \in 1..n : ToSet(more[i]) \subseteq Lowercase)
          <=> (\A i \in 1..n : ToSet(labels[i]) \subseteq Lowercase) /\ c \in Lowercase
    <2>1. 1..n = 1..(n - 1) \cup {n}
      BY <1>1
    <2>2. ToSet(more[n]) \subseteq Lowercase <=> ToSet(labels[n]) \subseteq Lowercase /\ c \in Lowercase
      BY <1>3, <1>4
    <2>3. \A i \in 1..(n - 1) : ToSet(more[i]) = ToSet(labels[i])
      BY <1>4
    <2> HIDE DEF n
    <2> QED
      BY <2>1, <2>2, <2>3
  <1> HIDE DEF n
  <1>6. Clean(more) <=> Clean(labels) /\ c \in Lowercase
    BY <1>4, <1>5 DEF Clean, n
  <1> QED
    BY <1>2, <1>4, <1>6 DEF more, last, n

LEMMA FittingAppend ==
  ASSUME NEW X, NEW x, NEW s \in Seq(X), NEW c \in X
  PROVE  Fitting(Append(s, c), x) <=>
           /\ Fitting(s, x)
           /\ c \in Lowercase \/ (c \in x /\ s # <<>> /\ s[Len(s)] \in Lowercase)
  <1> DEFINE n == Len(s)
             q == Append(s, c)
  <1>1. /\ n \in Nat /\ Len(q) = n + 1 /\ q[n + 1] = c
        /\ \A i \in 1..n : q[i] = s[i]
        /\ s # <<>> <=> n > 0
    BY EmptySeq
  <1> HIDE DEF n, q
  <1>2. \A i \in 1..(n + 1) : i > 1 => i - 1 \in 1..n
    BY <1>1
  <1>3. (\A i \in 1..n : q[i] \in Lowercase \/ (q[i] \in x /\ i > 1 /\ q[i - 1] \in Lowercase))
          <=> \A i \in 1..n : s[i] \in Lowercase \/ (s[i] \in x /\ i > 1 /\ s[i - 1] \in Lowercase)
    BY <1>1, <1>2
  <1>4. n > 0 => q[n] = s[n]
    BY <1>1
  <1> QED
    BY <1>1, <1>3, <1>4 DEF Fitting, n, q

LEMMA CleanIsFitting ==
  ASSUME NEW X, NEW x, x \cap Lowercase = {}
  PROVE  \A s \in Seq(X) :
           LET labels == Labels(s, x) IN
           /\ Clean(labels) <=> Fitting(s, x)
           /\ labels[Len(labels)] = <<>> <=> s = <<>> \/ s[Len(s)] \in x
  <1> DEFINE Ends(s) == s = <<>> \/ s[Len(s)] \in x
             T == {s \in Seq(X) : /\ Clean(Labels(s, x)) <=> Fitting(s, x)
                                  /\ Labels(s, x)[Len(Labels(s, x))] = <<>> <=> Ends(s)}
  <1>1. <<>> \in T
    <2>1. Clean(<< <<>> >>) /\ Fitting(<<>>, x)
      BY DEF Clean, Fitting, ToSet
    <2> QED
      BY <2>1, LabelsStep
  <1>2. ASSUME NEW s \in Seq(X), NEW c \in X, s \in T PROVE Append(s, c) \in T
    <2> DEFINE L == Labels(s, x)
               q == Append(s, c)
    <2>1. L \in Seq(Seq(X)) /\ Len(L) >= 1
      BY LabelsType
    <2>2. Labels(q, x) = CutOp(x, L, c)
      BY LabelsStep
    <2>3. Clean(L) <=> Fitting(s, x)
      BY <1>2
    <2>4. L[Len(L)] = <<>> <=> Ends(s)
      BY <1>2
    <2>5. Fitting(q, x) <=>
            Fitting(s, x) /\ (c \in Lowercase \/ (c \in x /\ s # <<>> /\ s[Len(s)] \in Lowercase))
      BY FittingAppend
    <2>6. Ends(q) <=> c \in x
      OBVIOUS
    <2>7. Fitting(s, x) /\ s # <<>> => s[Len(s)] \in Lowercase \cup x
      BY EmptySeq DEF Fitting
    <2> HIDE DEF L, Ends
    <2>8. CASE c \in x
      <3>1. CutOp(x, L, c) = Append(L, <<>>)
        BY <2>8 DEF CutOp
      <3>2. Clean(Append(L, <<>>)) <=> Clean(L) /\ L[Len(L)] # <<>>
        BY <2>1, CleanCut
      <3>3. Append(L, <<>>)[Len(Append(L, <<>>))] = <<>>
        BY <2>1
      <3>4. Clean(Labels(q, x)) <=> Fitting(q, x)
        BY <2>2, <2>3, <2>4, <2>5, <2>7, <2>8, <3>1, <3>2 DEF Ends
      <3>5. Labels(q, x)[Len(Labels(q, x))] = <<>> <=> Ends(q)
        BY <2>2, <2>6, <2>8, <3>1, <3>3
      <3> QED
        BY <3>4, <3>5
    <2>9. CASE c \notin x
      <3> DEFINE more == [L EXCEPT ![Len(L)] = Append(@, c)]
      <3>1. CutOp(x, L, c) = more
        BY <2>9 DEF CutOp
      <3>2. Clean(more) <=> Clean(L) /\ c \in Lowercase
        BY <2>1, CleanLonger
      <3>3. more[Len(more)] # <<>>
        BY <2>1, CleanLonger
      <3> HIDE DEF more
      <3> QED
        BY <2>2, <2>3, <2>5, <2>6, <2>9, <3>1, <3>2, <3>3
    <2> QED
      BY <2>8, <2>9
  <1> HIDE DEF T
  <1>3. Seq(X) \subseteq T
    BY <1>1, <1>2, Cut!Appending
  <1> QED
    BY <1>3 DEF T

\* labelled (validate.rs) is the regular expression of the CHECK constraints, for
\* texts of any length over any characters, so long as no separator is a letter or
\* a digit.
THEOREM LabelledIsChecked ==
  ASSUME NEW X, NEW x, x \cap Lowercase = {}, NEW s \in Seq(X)
  PROVE  Labelled(s, x) <=> CheckLabels(s, x)
  <1> DEFINE L == Labels(s, x)
             n == Len(s)
             k == Len(L)
  <1>1. L \in Seq(Seq(X)) /\ k \in Nat /\ k >= 1 /\ DOMAIN L = 1..k
    BY LabelsType
  <1>2. /\ Clean(L) <=> Fitting(s, x)
        /\ L[k] = <<>> <=> s = <<>> \/ s[n] \in x
    BY CleanIsFitting
  <1>3. n \in Nat /\ DOMAIN s = 1..n /\ (s # <<>> => n \in 1..n)
    BY EmptySeq
  <1> HIDE DEF L
  <1>4. Labelled(s, x) <=> s # <<>> /\ Clean(L) /\ L[k] # <<>>
    <2>1. 1..k = 1..(k - 1) \cup {k}
      BY <1>1
    <2>2. Labelled(s, x) <=>
            s # <<>> /\ \A i \in 1..k : L[i] # <<>> /\ ToSet(L[i]) \subseteq Lowercase
      BY <1>1 DEF Labelled, L
    <2> HIDE DEF k
    <2> QED
      BY <2>1, <2>2 DEF Clean, k
  <1> HIDE DEF n, k
  <1>5. ASSUME s # <<>>, Fitting(s, x), s[n] \notin x PROVE CheckLabels(s, x)
    <2> SUFFICES ASSUME NEW i \in 1..n, s[i] \notin Lowercase
                 PROVE  s[i] \in x /\ i > 1 /\ i < n /\ s[i - 1] \in Lowercase /\ s[i + 1] \in Lowercase
      BY <1>3, <1>5 DEF CheckLabels, n
    <2>1. s[i] \in x /\ i > 1 /\ s[i - 1] \in Lowercase
      BY <1>5 DEF Fitting, n
    <2>2. i < n /\ i + 1 \in 1..n /\ (i + 1) - 1 = i
      BY <1>3, <1>5, <2>1
    <2>3. s[i + 1] \in Lowercase
      BY <1>5, <2>2 DEF Fitting, n
    <2> QED
      BY <2>1, <2>2, <2>3
  <1>6. ASSUME CheckLabels(s, x) PROVE s # <<>> /\ Fitting(s, x) /\ s[n] \notin x
    <2>1. s # <<>> /\ \A i \in 1..n :
            s[i] \in Lowercase \/ (s[i] \in x /\ i > 1 /\ i < n /\ s[i - 1] \in Lowercase)
      BY <1>3, <1>6 DEF CheckLabels, n
    <2>2. s[n] \in Lowercase
      BY <1>3, <2>1
    <2> QED
      BY <2>1, <2>2 DEF Fitting, n
  <1> QED
    BY <1>2, <1>4, <1>5, <1>6

TextOK == text \in Seq(Letter)

LEMMA TextAlwaysOK == Spec => []TextOK
  <1>1. Init => TextOK
    BY DEF Init, TextOK
  <1>2. TextOK /\ [Next]_vars => TextOK'
    BY DEF TextOK, Next, Longer, OneMore, Type, vars
  <1> QED
    BY <1>1, <1>2, PTL DEF Spec

\* What the API accepts as a slug or a hostname the table accepts, and nothing
\* else: for texts of any length.
THEOREM SchemaAlwaysAgrees == Spec => []SchemaAgrees
  <1>1. {"-"} \cap Lowercase = {} /\ {".", "-"} \cap Lowercase = {}
    BY DEF Lowercase
  <1>2. TextOK => SchemaAgrees
    BY <1>1, LabelledIsChecked DEF TextOK, SchemaAgrees
  <1> QED
    BY <1>2, TextAlwaysOK, PTL

-----------------------------------------------------------------------------
(***************************************************************************)
(* Cutting and joining are inverse, and go through a concatenation.        *)
(***************************************************************************)

LEMMA SplitNil == Split(<<>>) = << <<>> >>
  BY SplitIsLabels, LabelsStep

\* There is a last segment,
LEMMA LastSegment ==
  ASSUME NEW X, NEW s \in Seq(X)
  PROVE  /\ Split(s) \in Seq(Seq(X)) /\ Split(s) # <<>>
         /\ Front(Split(s)) \in Seq(Seq(X)) /\ Last(Split(s)) \in Seq(X)
         /\ Split(s) = Append(Front(Split(s)), Last(Split(s)))
  <1> DEFINE L == Split(s)
  <1>1. L \in Seq(Seq(X)) /\ Len(L) >= 1
    BY SplitIsLabels, LabelsType
  <1>2. L # <<>>
    BY <1>1, EmptySeq
  <1> HIDE DEF L
  <1>3. PICK first \in Seq(Seq(X)), last \in Seq(X) : L = Append(first, last)
    BY <1>1, <1>2, SequenceEmptyOrAppend
  <1>4. Last(L) = last
    BY <1>3, AppendProperties DEF Last
  <1>5. Front(L) = first
    <2>1. Len(L) - 1 = Len(first) /\ Len(first) \in Nat /\ \A i \in 1..Len(first) : L[i] = first[i]
      BY <1>3, AppendProperties
    <2>2. SubSeq(L, 1, Len(first)) = first
      BY <1>1, <2>1
    <2> QED
      BY <2>1, <2>2 DEF Front
  <1> QED
    BY <1>1, <1>2, <1>3, <1>4, <1>5 DEF L

\* which a slash ends
LEMMA SplitSlash ==
  ASSUME NEW X, "/" \in X, NEW s \in Seq(X) PROVE Split(Append(s, "/")) = Append(Split(s), <<>>)
  <1>1. Split(Append(s, "/")) = CutOp({"/"}, Split(s), "/")
    BY SplitIsLabels, LabelsStep
  <1> QED
    BY <1>1 DEF CutOp

\* and any other character goes to.
LEMMA SplitOther ==
  ASSUME NEW X, NEW s \in Seq(X), NEW c \in X, c # "/"
  PROVE  Split(Append(s, c)) = Append(Front(Split(s)), Append(Last(Split(s)), c))
  <1> DEFINE first == Front(Split(s))
             last  == Last(Split(s))
             L     == Append(first, last)
             more  == Append(last, c)
             other == [L EXCEPT ![Len(L)] = more]
             n     == Len(first)
  <1>1. first \in Seq(Seq(X)) /\ last \in Seq(X) /\ Split(s) = L
    BY LastSegment
  <1>2. Split(Append(s, c)) = CutOp({"/"}, L, c)
    BY <1>1, SplitIsLabels, LabelsStep
  <1> HIDE DEF first, last
  <1>3. /\ more \in Seq(X) /\ L \in Seq(Seq(X)) /\ n \in Nat /\ Len(L) = n + 1 /\ L[n + 1] = last
        /\ n + 1 \in 1..(n + 1) /\ \A i \in 1..n : L[i] = first[i]
    BY <1>1, AppendProperties
  <1> HIDE DEF L
  <1>4. CutOp({"/"}, L, c) = other
    BY <1>3 DEF CutOp
  <1> HIDE DEF more
  <1>5. /\ other \in Seq(Seq(X)) /\ Len(other) = n + 1
        /\ other[n + 1] = more /\ \A i \in 1..n : other[i] = first[i]
    BY <1>3, ExceptSeq
  <1>6. /\ Append(first, more) \in Seq(Seq(X)) /\ Len(Append(first, more)) = n + 1
        /\ Append(first, more)[n + 1] = more
        /\ \A i \in 1..n : Append(first, more)[i] = first[i]
    BY <1>1, <1>3, AppendProperties
  <1> HIDE DEF other, n
  <1>7. other = Append(first, more)
    BY <1>3, <1>5, <1>6, SeqEqual
  <1> QED
    BY <1>2, <1>4, <1>7 DEF first, last, more

\* A concatenation, under a name of its own: the provers take \o apart.
Cat(a, b) == a \o b

\* Appending is at its end.
LEMMA CatAppend ==
  ASSUME NEW X, NEW a \in Seq(X), NEW b \in Seq(X), NEW c \in X
  PROVE  /\ Cat(a, b) \in Seq(X) /\ Append(b, c) \in Seq(X)
         /\ Append(Cat(a, b), c) = Cat(a, Append(b, c))
  <1>1. Append(b, c) = b \o <<c>> /\ <<c>> \in Seq(X) /\ a \o b \in Seq(X)
    BY AppendIsConcat
  <1>2. Append(a \o b, c) = (a \o b) \o <<c>>
    BY <1>1, AppendIsConcat
  <1> QED
    BY <1>1, <1>2, ConcatAssociative, AppendProperties DEF Cat

LEMMA JoinType ==
  ASSUME NEW X, "/" \in X
  PROVE  \A segs \in Seq(Seq(X)) :
           Join(segs) \in Seq(X) /\ (segs # <<>> => Join(segs) # <<>> /\ Join(segs)[1] = "/")
  <1> DEFINE T == {segs \in Seq(Seq(X)) :
                     Join(segs) \in Seq(X) /\ (segs # <<>> => Join(segs) # <<>> /\ Join(segs)[1] = "/")}
  <1>1. <<>> \in T
    <2>1. <<>> \in Seq(X) /\ <<>> \in Seq(Seq(X))
      OBVIOUS
    <2> QED
      BY <2>1, JoinStep
  <1>2. ASSUME NEW segs \in Seq(Seq(X)), NEW seg \in Seq(X), segs \in T
        PROVE  Append(segs, seg) \in T
    <2> DEFINE j == Join(segs)
               k == j \o <<"/">>
    <2>1. Join(Append(segs, seg)) = k \o seg
      BY JoinStep
    <2>2. j \in Seq(X) /\ (segs # <<>> => j # <<>> /\ j[1] = "/") /\ (segs = <<>> => j = <<>>)
      BY <1>2, JoinStep
    <2> HIDE DEF j
    <2>3. k \in Seq(X) /\ k # <<>> /\ k[1] = "/"
      BY <2>2
    <2> HIDE DEF k
    <2>4. k \o seg \in Seq(X) /\ k \o seg # <<>> /\ (k \o seg)[1] = "/"
      BY <2>3
    <2>5. Append(segs, seg) \in Seq(Seq(X))
      OBVIOUS
    <2> QED
      BY <2>1, <2>4, <2>5
  <1> HIDE DEF T
  <1>3. Seq(Seq(X)) \subseteq T
    BY <1>1, <1>2, Cut!Appending
  <1> QED
    BY <1>3 DEF T

LEMMA CatAssociative ==
  ASSUME NEW X, NEW a \in Seq(X), NEW b \in Seq(X), NEW c \in Seq(X)
  PROVE  Cat(Cat(a, b), c) = Cat(a, Cat(b, c))
  BY ConcatAssociative DEF Cat

LEMMA CatType == ASSUME NEW X, NEW a \in Seq(X), NEW b \in Seq(X) PROVE Cat(a, b) \in Seq(X)
  BY ConcatProperties DEF Cat

LEMMA RegroupFour ==
  ASSUME NEW X, NEW a \in Seq(X), NEW b \in Seq(X), NEW c \in Seq(X), NEW d \in Seq(X)
  PROVE  Cat(Cat(Cat(a, b), c), d) = Cat(a, Cat(Cat(b, c), d))
  <1>1. Cat(b, c) \in Seq(X)
    BY CatType
  <1>2. Cat(Cat(a, b), c) = Cat(a, Cat(b, c))
    BY CatAssociative
  <1>3. Cat(Cat(a, Cat(b, c)), d) = Cat(a, Cat(Cat(b, c), d))
    BY <1>1, CatAssociative
  <1> QED
    BY <1>2, <1>3

LEMMA JoinConcat ==
  ASSUME NEW X, "/" \in X, NEW a \in Seq(Seq(X))
  PROVE  \A b \in Seq(Seq(X)) : Join(a \o b) = Join(a) \o Join(b)
  <1> DEFINE T == {b \in Seq(Seq(X)) : Join(a \o b) = Join(a) \o Join(b)}
  <1>1. <<>> \in T
    BY JoinStep, JoinType, ConcatEmptySeq
  <1>2. ASSUME NEW b \in Seq(Seq(X)), NEW seg \in Seq(X), b \in T PROVE Append(b, seg) \in T
    <2>1. a \o b \in Seq(Seq(X)) /\ a \o Append(b, seg) = Append(a \o b, seg)
      OBVIOUS
    <2>2. /\ Join(Append(a \o b, seg)) = Join(a \o b) \o <<"/">> \o seg
          /\ Join(Append(b, seg)) = Join(b) \o <<"/">> \o seg
      BY <2>1, JoinStep
    <2>3. Join(a \o b) = Join(a) \o Join(b)
      BY <1>2
    <2>4. Join(a) \in Seq(X) /\ Join(b) \in Seq(X)
      BY JoinType
    <2>5. ASSUME NEW q \in Seq(X), NEW r \in Seq(X)
          PROVE  (q \o r) \o <<"/">> \o seg = q \o (r \o <<"/">> \o seg)
      <3> DEFINE slash == <<"/">>
      <3>1. slash \in Seq(X)
        OBVIOUS
      <3> HIDE DEF slash
      <3>2. Cat(Cat(Cat(q, r), slash), seg) = Cat(q, Cat(Cat(r, slash), seg))
        BY <3>1, RegroupFour
      <3> QED
        BY <3>2 DEF Cat, slash
    <2>6. Append(b, seg) \in Seq(Seq(X))
      OBVIOUS
    <2>7. Join(a \o Append(b, seg)) = Join(a) \o Join(Append(b, seg))
      BY <2>1, <2>2, <2>3, <2>4, <2>5
    <2> QED
      BY <2>6, <2>7
  <1> HIDE DEF T
  <1>3. Seq(Seq(X)) \subseteq T
    BY <1>1, <1>2, Cut!Appending
  <1> QED
    BY <1>3 DEF T

\* Joined again, a text is itself after a slash.
LEMMA JoinSplit ==
  ASSUME NEW X, "/" \in X
  PROVE  \A s \in Seq(X) : Join(Split(s)) = <<"/">> \o s
  <1> DEFINE P(s) == Join(Split(s)) = <<"/">> \o s
             T == {s \in Seq(X) : P(s)}
  <1>1. P(<<>>)
    <2>1. <<>> \in Seq(Seq(X)) /\ <<>> \in Seq(X) /\ << <<>> >> = Append(<<>>, <<>>)
      OBVIOUS
    <2>2. Join(<< <<>> >>) = <<>> \o <<"/">> \o <<>>
      BY <2>1, JoinStep
    <2>3. <<>> \o <<"/">> \o <<>> = <<"/">> \o <<>>
      OBVIOUS
    <2> QED
      BY <2>2, <2>3, SplitNil
  <1>2. ASSUME NEW s \in Seq(X), NEW c \in X, P(s) PROVE P(Append(s, c))
    <2> DEFINE first == Front(Split(s))
               last  == Last(Split(s))
    <2>1. <<"/">> \o Append(s, c) = Append(<<"/">> \o s, c)
      OBVIOUS
    <2>2. CASE c = "/"
      <3>1. Join(Append(Split(s), <<>>)) = Join(Split(s)) \o <<"/">> \o <<>>
        <4>1. Split(s) \in Seq(Seq(X)) /\ <<>> \in Seq(X)
          BY LastSegment
        <4> QED
          BY <4>1, JoinStep
      <3>2. (<<"/">> \o s) \o <<"/">> \o <<>> = Append(<<"/">> \o s, "/")
        BY <2>2
      <3> QED
        BY <1>2, <2>1, <2>2, <3>1, <3>2, SplitSlash
    <2>3. CASE c # "/"
      <3>1. first \in Seq(Seq(X)) /\ last \in Seq(X) /\ Split(s) = Append(first, last)
        BY LastSegment
      <3>2. Split(Append(s, c)) = Append(first, Append(last, c))
        BY <2>3, SplitOther
      <3> HIDE DEF first, last
      <3>3. Append(last, c) \in Seq(X) /\ Join(first) \o <<"/">> \in Seq(X)
        BY <3>1, JoinType
      <3>4. /\ Join(Append(first, last)) = Join(first) \o <<"/">> \o last
            /\ Join(Append(first, Append(last, c))) = Join(first) \o <<"/">> \o Append(last, c)
        BY <3>1, <3>3, JoinStep
      <3>5. Join(Append(first, Append(last, c))) = Append(Join(first) \o <<"/">> \o last, c)
        <4> DEFINE j == Join(first) \o <<"/">>
        <4>1. j \in Seq(X) /\ last \in Seq(X)
          BY <3>1, <3>3
        <4>2. Join(Append(first, Append(last, c))) = Cat(j, Append(last, c))
          BY <3>4 DEF Cat
        <4> HIDE DEF j
        <4>3. Append(Cat(j, last), c) = Cat(j, Append(last, c))
          BY <4>1, CatAppend
        <4> QED
          BY <4>2, <4>3 DEF Cat, j
      <3> QED
        BY <1>2, <2>1, <3>1, <3>2, <3>4, <3>5
    <2> QED
      BY <2>2, <2>3
  <1> HIDE DEF P
  <1>3. <<>> \in T /\ \A s \in Seq(X), c \in X : s \in T => Append(s, c) \in T
    BY <1>1, <1>2, AppendProperties, EmptySeq
  <1> HIDE DEF T
  <1>4. Seq(X) \subseteq T
    BY <1>3, Cut!Appending
  <1> QED
    BY <1>4 DEF P, T

\* And a text is cut at any of its slashes.
LEMMA SplitConcat ==
  ASSUME NEW X, "/" \in X, NEW s \in Seq(X)
  PROVE  \A t \in Seq(X) : Split(s \o <<"/">> \o t) = Split(s) \o Split(t)
  <1> DEFINE q == Append(s, "/")
             L == Split(s)
             Y == Seq(X)
             P(t) == Split(q \o t) = L \o Split(t)
             T == {t \in Seq(X) : P(t)}
  <1>1. q \in Seq(X) /\ s \o <<"/">> = q
    BY AppendIsConcat, AppendProperties
  <1>2. L \in Seq(Y) /\ Split(q) = Append(L, <<>>)
    BY LastSegment, SplitSlash
  <1> HIDE DEF q, L
  <1>3. P(<<>>)
    <2>1. <<>> \in Seq(X) /\ q \o <<>> = q
      BY <1>1, ConcatEmptySeq
    <2>2. Append(L, <<>>) = L \o << <<>> >>
      BY <1>2, <2>1, AppendIsConcat
    <2> QED
      BY <1>2, <2>1, <2>2, SplitNil
  <1>4. ASSUME NEW t \in Seq(X), NEW c \in X, P(t) PROVE P(Append(t, c))
    <2> DEFINE M     == Split(t)
               first == Front(M)
               last  == Last(M)
               head  == Front(Split(q \o t))
               end   == Last(Split(q \o t))
    <2>1. q \o t \in Seq(X) /\ q \o Append(t, c) = Append(q \o t, c)
      BY <1>1, CatAppend
    <2>2. M \in Seq(Y) /\ first \in Seq(Y) /\ last \in Y /\ M = Append(first, last)
      BY LastSegment
    <2>3. Split(q \o t) = L \o M
      BY <1>4
    <2>4. CASE c = "/"
      <3>1. Split(Append(q \o t, c)) = Append(Split(q \o t), <<>>) /\ Split(Append(t, c)) = Append(M, <<>>)
        BY <2>1, <2>4, SplitSlash
      <3>2. <<>> \in Y
        OBVIOUS
      <3> HIDE DEF M, Y
      <3>3. Append(L \o M, <<>>) = L \o Append(M, <<>>)
        <4>1. L \in Seq(Y) /\ M \in Seq(Y)
          BY <1>2, <2>2
        <4>2. Append(Cat(L, M), <<>>) = Cat(L, Append(M, <<>>))
          BY <3>2, <4>1, CatAppend
        <4> QED
          BY <4>2 DEF Cat
      <3> QED
        BY <2>1, <2>3, <3>1, <3>3
    <2>5. CASE c # "/"
      <3> DEFINE more == Append(last, c)
      <3>1. Split(Append(t, c)) = Append(first, more)
        BY <2>5, SplitOther
      <3>2. Split(Append(q \o t, c)) = Append(head, Append(end, c))
        BY <2>1, <2>5, SplitOther
      <3>3. head \in Seq(Y) /\ end \in Y /\ Split(q \o t) = Append(head, end) /\ more \in Y
        <4>1. head \in Seq(Y) /\ end \in Y /\ Split(q \o t) = Append(head, end)
          BY <2>1, LastSegment
        <4>2. last \in Seq(X)
          BY LastSegment
        <4>3. more \in Y
          BY <4>2, AppendProperties
        <4> QED
          BY <4>1, <4>3
      <3> HIDE DEF M, first, last, head, end, more, Y
      <3>4. L \o first \in Seq(Y) /\ L \o M = Append(L \o first, last)
        BY <1>2, <2>2
      <3>5. head = L \o first /\ end = last
        <4> DEFINE other == L \o first
        <4>1. Append(head, end) = Append(other, last) /\ other \in Seq(Y)
          BY <2>3, <3>3, <3>4
        <4> HIDE DEF other
        <4>2. head = other /\ end = last
          BY <2>2, <3>3, <4>1, AppendInjective
        <4> QED
          BY <4>2 DEF other
      <3>6. Append(L \o first, more) = L \o Append(first, more)
        <4>1. L \in Seq(Y) /\ first \in Seq(Y) /\ more \in Y
          BY <1>2, <2>2, <3>3
        <4>2. Append(Cat(L, first), more) = Cat(L, Append(first, more))
          BY <4>1, CatAppend
        <4> QED
          BY <4>2 DEF Cat
      <3>7. Split(Append(q \o t, c)) = Append(L \o first, more)
        BY <3>2, <3>5 DEF more
      <3> QED
        BY <2>1, <3>1, <3>6, <3>7
    <2> QED
      BY <2>4, <2>5
  <1> HIDE DEF P
  <1>5. <<>> \in T /\ \A t \in Seq(X), c \in X : t \in T => Append(t, c) \in T
    BY <1>3, <1>4, AppendProperties, EmptySeq
  <1> HIDE DEF T
  <1>6. Seq(X) \subseteq T
    BY <1>5, Cut!Appending
  <1>7. ASSUME NEW t \in Seq(X) PROVE s \o <<"/">> \o t = q \o t
    BY <1>1
  <1> QED
    BY <1>6, <1>7 DEF P, L, T

-----------------------------------------------------------------------------
(***************************************************************************)
(* matches (policy.rs): a pattern's base is a string, compared as one; it  *)
(* means its segments.                                                     *)
(***************************************************************************)
Below(b, p) == IsStrictPrefix(b, p) /\ p[Len(b) + 1] = "/"

\* What begins with a slash.
Rooted(p) == p # <<>> /\ p[1] = "/"

LEMMA Leading ==
  ASSUME NEW X, "/" \in X
  PROVE  /\ \A r \in Seq(X) : Cat(<<"/">>, r) \in Seq(X) /\ Rooted(Cat(<<"/">>, r))
         /\ \A r, t \in Seq(X) : Cat(<<"/">>, r) = Cat(<<"/">>, t) => r = t
         /\ \A p \in Seq(X) : Rooted(p) => Tail(p) \in Seq(X) /\ p = Cat(<<"/">>, Tail(p))
  <1>1. ASSUME NEW r \in Seq(X) PROVE Cat(<<"/">>, r) \in Seq(X) /\ Rooted(Cat(<<"/">>, r))
    BY DEF Cat, Rooted
  <1>2. ASSUME NEW r \in Seq(X), NEW t \in Seq(X), Cat(<<"/">>, r) = Cat(<<"/">>, t) PROVE r = t
    <2> DEFINE q == Cat(<<"/">>, r)
    <2>1. Len(q) = Len(r) + 1 /\ \A i \in 1..Len(r) : q[i + 1] = r[i]
      BY DEF Cat
    <2>2. Len(q) = Len(t) + 1 /\ \A i \in 1..Len(t) : q[i + 1] = t[i]
      BY <1>2 DEF Cat
    <2> HIDE DEF q
    <2>3. Len(r) = Len(t) /\ \A i \in 1..Len(r) : r[i] = t[i]
      BY <2>1, <2>2
    <2> QED
      BY <2>3, SeqEqual
  <1>3. ASSUME NEW p \in Seq(X), Rooted(p) PROVE Tail(p) \in Seq(X) /\ p = Cat(<<"/">>, Tail(p))
    <2> DEFINE q == Cat(<<"/">>, Tail(p))
    <2>1. /\ Tail(p) \in Seq(X) /\ Len(Tail(p)) = Len(p) - 1
          /\ \A i \in 1..Len(Tail(p)) : Tail(p)[i] = p[i + 1]
      BY <1>3, HeadTailProperties DEF Rooted
    <2>2. q \in Seq(X) /\ Len(q) = Len(Tail(p)) + 1 /\ q[1] = "/"
          /\ \A i \in 1..Len(Tail(p)) : q[i + 1] = Tail(p)[i]
      BY <2>1 DEF Cat
    <2>3. Len(p) \in Nat /\ p[1] = "/"
      BY <1>3 DEF Rooted
    <2> HIDE DEF q
    <2>4. Len(p) = Len(q) /\ \A i \in 1..Len(p) : p[i] = q[i]
      <3>1. ASSUME NEW i \in 1..Len(p), i # 1 PROVE i - 1 \in 1..Len(Tail(p)) /\ (i - 1) + 1 = i
        BY <2>1, <2>3, <3>1
      <3> QED
        BY <2>1, <2>2, <2>3, <3>1
    <2>5. p = q
      BY <2>2, <2>4, SeqEqual
    <2> QED
      BY <2>1, <2>5 DEF q
  <1> QED
    BY <1>1, <1>2, <1>3

\* A string below another, as strings are compared.
LEMMA BelowIs ==
  ASSUME NEW X, "/" \in X, NEW b \in Seq(X), NEW p \in Seq(X)
  PROVE  Below(b, p) <=> \E t \in Seq(X) : p = Cat(b, Cat(<<"/">>, t))
  <1> DEFINE n == Len(b)
             k == Len(p)
  <1>1. n \in Nat /\ k \in Nat
    OBVIOUS
  <1>2. ASSUME NEW t \in Seq(X), p = Cat(b, Cat(<<"/">>, t)) PROVE Below(b, p)
    <2>1. Len(p) = n + 1 + Len(t) /\ p[n + 1] = "/" /\ \A i \in 1..n : p[i] = b[i]
      BY <1>2 DEF Cat
    <2>2. SubSeq(b, 1, n) = SubSeq(p, 1, n)
      BY <2>1
    <2> QED
      BY <1>1, <2>1, <2>2 DEF Below, IsStrictPrefix, IsPrefix
  <1>3. ASSUME Below(b, p) PROVE \E t \in Seq(X) : p = Cat(b, Cat(<<"/">>, t))
    <2> DEFINE t == SubSeq(p, n + 2, k)
               c == Cat(<<"/">>, t)
               q == Cat(b, c)
    <2>1. n <= k /\ SubSeq(b, 1, n) = SubSeq(p, 1, n) /\ b # p /\ p[n + 1] = "/"
      BY <1>3 DEF Below, IsStrictPrefix, IsPrefix
    <2>2. \A i \in 1..n : b[i] = p[i]
      <3>1. ASSUME NEW i \in 1..n PROVE SubSeq(b, 1, n)[i] = b[i] /\ SubSeq(p, 1, n)[i] = p[i]
        BY <2>1
      <3> QED
        BY <2>1, <3>1
    <2>3. n < k
      <3>1. CASE n = k
        BY <2>1, <2>2, <3>1, SeqEqual
      <3> QED
        BY <1>1, <2>1, <3>1
    <2>4. /\ t \in Seq(X) /\ Len(t) = k - n - 1
          /\ \A i \in 1..(k - n - 1) : t[i] = p[n + 1 + i]
      BY <1>1, <2>3
    <2> HIDE DEF t
    <2>5. c \in Seq(X) /\ Len(c) = k - n /\ c[1] = "/" /\ \A i \in 1..(k - n - 1) : c[i + 1] = t[i]
      BY <1>1, <2>3, <2>4 DEF Cat
    <2> HIDE DEF c
    <2>6. q \in Seq(X) /\ Len(q) = k /\ \A i \in 1..k : q[i] = IF i <= n THEN b[i] ELSE c[i - n]
      BY <1>1, <2>3, <2>5, ConcatProperties DEF Cat
    <2> HIDE DEF q
    <2>7. ASSUME NEW i \in 1..k PROVE p[i] = q[i]
      <3>1. CASE i <= n
        BY <1>1, <2>2, <2>6, <3>1
      <3>2. CASE i = n + 1
        BY <1>1, <2>1, <2>5, <2>6, <3>2
      <3>3. CASE i > n + 1
        <4>1. i - n - 1 \in 1..(k - n - 1) /\ (i - n - 1) + 1 = i - n /\ n + 1 + (i - n - 1) = i
          BY <1>1, <3>3
        <4>2. q[i] = c[i - n]
          BY <1>1, <2>6, <3>3
        <4> QED
          BY <2>4, <2>5, <4>1, <4>2
      <3> QED
        BY <1>1, <3>1, <3>2, <3>3
    <2>8. p = q
      BY <2>6, <2>7, SeqEqual
    <2> QED
      BY <2>4, <2>8 DEF q, c
  <1> QED
    BY <1>2, <1>3

\* The sequences that begin with one are those it is concatenated to.
LEMMA PrefixIs ==
  ASSUME NEW Y, NEW a \in Seq(Y), NEW b \in Seq(Y)
  PROVE  IsPrefix(a, b) <=> \E c \in Seq(Y) : b = Cat(a, c)
  <1> DEFINE n == Len(a)
  <1>1. n \in Nat /\ Len(b) \in Nat /\ SubSeq(a, 1, n) = a
    BY SubSeqFull
  <1>2. ASSUME NEW c \in Seq(Y), b = Cat(a, c) PROVE IsPrefix(a, b)
    <2>1. Len(b) = n + Len(c) /\ \A i \in 1..n : b[i] = a[i]
      BY <1>2, ConcatProperties DEF Cat
    <2>2. SubSeq(a, 1, n) = SubSeq(b, 1, n)
      BY <1>1, <2>1
    <2> QED
      BY <1>1, <2>1, <2>2 DEF IsPrefix
  <1>3. ASSUME IsPrefix(a, b) PROVE \E c \in Seq(Y) : b = Cat(a, c)
    <2> DEFINE c == SubSeq(b, n + 1, Len(b))
    <2>1. n <= Len(b) /\ SubSeq(b, 1, n) = a
      BY <1>1, <1>3 DEF IsPrefix
    <2>2. c \in Seq(Y)
      BY <1>1, <2>1
    <2>3. SubSeq(b, 1, n) \o c = b
      <3>1. SubSeq(b, 1, n) \o SubSeq(b, n + 1, Len(b)) = SubSeq(b, 1, Len(b))
        <4>1. 1 \in 1..(Len(b) + 1) /\ n \in (1 - 1)..Len(b) /\ Len(b) \in n..Len(b)
          BY <1>1, <2>1
        <4> HIDE DEF n
        <4> QED
          BY <4>1, ConcatAdjacentSubSeq
      <3> QED
        BY <3>1, SubSeqFull
    <2> HIDE DEF c
    <2> QED
      BY <2>1, <2>2, <2>3 DEF Cat
  <1> QED
    BY <1>2, <1>3

\* The segments of one text begin with those of another one when the texts do,
\* at a slash.
LEMMA SegmentsPrefix ==
  ASSUME NEW X, "/" \in X, NEW a \in Seq(X), NEW r \in Seq(X)
  PROVE  IsPrefix(Split(a), Split(r)) <=> r = a \/ \E t \in Seq(X) : r = Cat(a, Cat(<<"/">>, t))
  <1> DEFINE A == Split(a)
             R == Split(r)
             Y == Seq(X)
             slash == <<"/">>
  <1>1. A \in Seq(Y) /\ R \in Seq(Y) /\ slash \in Seq(X)
    BY LastSegment
  <1>2. Join(A) = Cat(slash, a) /\ Join(R) = Cat(slash, r)
    BY JoinSplit DEF Cat
  <1>3. IsPrefix(A, R) <=> \E C \in Seq(Y) : R = Cat(A, C)
    <2> HIDE DEF A, R, Y
    <2> QED
      BY <1>1, PrefixIs
  <1>4. ASSUME r = a PROVE \E C \in Seq(Y) : R = Cat(A, C)
    <2>1. <<>> \in Seq(Y) /\ R = Cat(A, <<>>)
      BY <1>1, <1>4 DEF Cat
    <2> QED
      BY <2>1
  <1>5. ASSUME NEW t \in Seq(X), r = Cat(a, Cat(slash, t)) PROVE \E C \in Seq(Y) : R = Cat(A, C)
    <2>1. Split(t) \in Seq(Y)
      BY LastSegment
    <2>2. Cat(Cat(a, slash), t) = Cat(a, Cat(slash, t))
      <3>1. slash \in Seq(X)
        BY <1>1
      <3> HIDE DEF slash
      <3> QED
        BY <3>1, CatAssociative
    <2>3. R = Cat(A, Split(t))
      BY <1>5, <2>2, SplitConcat DEF Cat
    <2> QED
      BY <2>1, <2>3
  <1>6. ASSUME NEW C \in Seq(Y), R = Cat(A, C) PROVE r = a \/ \E t \in Seq(X) : r = Cat(a, Cat(slash, t))
    <2> DEFINE j == Join(C)
    <2>1. Join(R) = Cat(Join(A), j)
      BY <1>1, <1>6, JoinConcat DEF Cat
    <2>2. j \in Seq(X) /\ (C # <<>> => Rooted(j)) /\ (C = <<>> => j = <<>>)
      BY JoinType, JoinStep DEF Rooted
    <2> HIDE DEF A, R, j, slash
    <2>3. Cat(slash, r) = Cat(Cat(slash, a), j)
      BY <1>2, <2>1
    <2>4. Cat(Cat(slash, a), j) = Cat(slash, Cat(a, j)) /\ Cat(a, j) \in Seq(X)
      <3>1. Cat(Cat(slash, a), j) = Cat(slash, Cat(a, j))
        BY <1>1, <2>2, CatAssociative
      <3>2. Cat(a, j) \in Seq(X)
        BY <2>2, CatType
      <3> QED
        BY <3>1, <3>2
    <2>5. r = Cat(a, j)
      BY <2>3, <2>4, Leading DEF slash
    <2>6. CASE C = <<>>
      <3>1. Cat(a, <<>>) = a
        BY DEF Cat
      <3> QED
        BY <2>2, <2>5, <2>6, <3>1
    <2>7. CASE C # <<>>
      <3>1. Tail(j) \in Seq(X) /\ j = Cat(slash, Tail(j))
        BY <2>2, <2>7, Leading DEF slash
      <3> QED
        BY <2>5, <3>1
    <2> QED
      BY <2>6, <2>7
  <1> HIDE DEF A, R, Y, slash
  <1>7. IsPrefix(A, R) <=> r = a \/ \E t \in Seq(X) : r = Cat(a, Cat(slash, t))
    BY <1>3, <1>4, <1>5, <1>6
  <1> QED
    BY <1>7 DEF A, R, slash

\* What the segments of a text are that begins with a slash.
LEMMA SegmentsRooted ==
  ASSUME NEW X, "/" \in X, NEW p \in Seq(X), Rooted(p)
  PROVE  Segments(p) = Split(Tail(p))
  <1> DEFINE r == Tail(p)
             R == Split(r)
  <1>1. r \in Seq(X) /\ p = Cat(<<"/">>, r)
    BY Leading
  <1>2. R \in Seq(Seq(X))
    BY <1>1, LastSegment
  <1>3. <<>> \in Seq(X) /\ <<>> \o <<"/">> \o r = Cat(<<"/">>, r)
    BY <1>1 DEF Cat
  <1> HIDE DEF r
  <1>4. Split(p) = << <<>> >> \o R
    BY <1>1, <1>3, SplitConcat, SplitNil
  <1> HIDE DEF R
  <1>5. Tail(<< <<>> >> \o R) = R
    BY <1>2
  <1> QED
    BY <1>4, <1>5 DEF Segments, R, r

\* The boundary of a pattern is at a segment and not at a character.
LEMMA MatchesIsUnder ==
  ASSUME NEW X, "/" \in X, NEW b \in Seq(X), NEW p \in Seq(X), Rooted(p), b = <<>> \/ Rooted(b)
  PROVE  b = <<>> \/ p = b \/ Below(b, p) <=> IsPrefix(Segments(b), Segments(p))
  <1> DEFINE a == Tail(b)
             r == Tail(p)
  <1>1. Segments(p) = Split(r) /\ r \in Seq(X) /\ p = Cat(<<"/">>, r)
    BY SegmentsRooted, Leading
  <1>2. CASE b = <<>>
    <2>1. Segments(b) = <<>>
      <3>1. Tail(<< <<>> >>) = <<>>
        OBVIOUS
      <3> QED
        BY <1>2, <3>1, SplitNil DEF Segments
    <2>2. Split(r) \in Seq(Seq(X))
      BY <1>1, LastSegment
    <2>3. IsPrefix(<<>>, Split(r))
      BY <2>2 DEF IsPrefix
    <2> QED
      BY <1>1, <1>2, <2>1, <2>3
  <1>3. CASE b # <<>>
    <2>1. Segments(b) = Split(a) /\ a \in Seq(X) /\ b = Cat(<<"/">>, a)
      BY <1>3, SegmentsRooted, Leading
    <2> HIDE DEF a, r
    <2>2. IsPrefix(Split(a), Split(r)) <=> r = a \/ \E t \in Seq(X) : r = Cat(a, Cat(<<"/">>, t))
      BY <1>1, <2>1, SegmentsPrefix
    <2>3. Below(b, p) <=> \E t \in Seq(X) : p = Cat(b, Cat(<<"/">>, t))
      BY BelowIs
    <2>4. ASSUME NEW t \in Seq(X)
          PROVE  p = Cat(b, Cat(<<"/">>, t)) <=> r = Cat(a, Cat(<<"/">>, t))
      <3> DEFINE u == Cat(<<"/">>, t)
                 slash == <<"/">>
      <3>1. u \in Seq(X) /\ slash \in Seq(X)
        BY Leading
      <3> HIDE DEF u
      <3>2. Cat(Cat(slash, a), u) = Cat(slash, Cat(a, u)) /\ Cat(a, u) \in Seq(X)
        <4>1. Cat(Cat(slash, a), u) = Cat(slash, Cat(a, u))
          <5> HIDE DEF slash
          <5> QED
            BY <2>1, <3>1, CatAssociative
        <4>2. Cat(a, u) \in Seq(X)
          BY <2>1, <3>1, CatType
        <4> QED
          BY <4>1, <4>2
      <3>3. Cat(slash, r) = Cat(slash, Cat(a, u)) => r = Cat(a, u)
        BY <1>1, <3>2, Leading
      <3> QED
        BY <1>1, <2>1, <3>2, <3>3 DEF u
    <2>5. p = b <=> r = a
      BY <1>1, <2>1, Leading
    <2> QED
      BY <1>1, <1>3, <2>1, <2>2, <2>3, <2>4, <2>5
  <1> QED
    BY <1>2, <1>3

-----------------------------------------------------------------------------
(***************************************************************************)
(* What normalise, the readings and a base are made of, over any set of     *)
(* characters that has those of the decoding.                              *)
(***************************************************************************)
Alphabet == {"/", "\\", ".", "A", "a", "?", "%"}

LEMMA MinIs ==
  ASSUME NEW S, S \subseteq Nat, S # {}
  PROVE  Min(S) \in S /\ \A m \in S : Min(S) <= m
  <1>1. PICK n \in S : \A m \in S : ~(m < n)
    BY Cut!LeastNumber
  <1>2. n \in Nat /\ \A m \in S : n <= m
    BY <1>1
  <1> QED
    BY <1>2 DEF Min

LEMMA MaxIs ==
  ASSUME NEW k \in Nat, NEW S, S \subseteq 1..k, S # {}
  PROVE  Max(S) \in S /\ \A m \in S : Max(S) >= m
  <1> DEFINE D == {d \in Nat : k - d \in S}
  <1>1. D # {}
    <2>1. PICK m \in S : TRUE
      OBVIOUS
    <2>2. k - m \in Nat /\ k - (k - m) = m
      BY <2>1
    <2> QED
      BY <2>1, <2>2
  <1>2. PICK d \in D : \A e \in D : ~(e < d)
    BY <1>1, Cut!LeastNumber
  <1>3. ASSUME NEW m \in S PROVE k - d >= m
    <2>1. k - m \in D
      <3>1. k - m \in Nat /\ k - (k - m) = m
        OBVIOUS
      <3> QED
        BY <3>1
    <2>2. ~(k - m < d)
      BY <1>2, <2>1
    <2> QED
      BY <2>2
  <1> QED
    BY <1>2, <1>3 DEF Max

\* Where a character is first, and where another one is last.
LEMMA BeforeIs ==
  ASSUME NEW X, NEW s \in Seq(X), NEW c
  PROVE  /\ Before(s, c) \in 0..Len(s)
         /\ Before(s, c) = 0 => c \notin ToSet(s)
         /\ c \notin ToSet(s) => Before(s, c) = 0
  <1> DEFINE I == {i \in 1..Len(s) : s[i] = c}
  <1>1. Before(s, c) = IF I # {} THEN Min(I) ELSE 0
    BY DEF Before, SelectInSeq
  <1>2. c \in ToSet(s) <=> I # {}
    BY DEF ToSet
  <1>3. I # {} => Min(I) \in 1..Len(s)
    <2>1. I \subseteq Nat /\ I \subseteq 1..Len(s)
      OBVIOUS
    <2> HIDE DEF I
    <2> QED
      BY <2>1, MinIs
  <1> HIDE DEF I
  <1> QED
    BY <1>1, <1>2, <1>3

LEMMA TrimEndIs ==
  ASSUME NEW X, NEW s \in Seq(X), NEW c
  PROVE  \E k \in 0..Len(s) : TrimEnd(s, c) = SubSeq(s, 1, k)
  <1> DEFINE I == {i \in 1..Len(s) : s[i] # c}
  <1>1. TrimEnd(s, c) = SubSeq(s, 1, IF I # {} THEN Max(I) ELSE 0)
    BY DEF TrimEnd, SelectLastInSeq
  <1>2. I # {} => Max(I) \in 1..Len(s)
    BY MaxIs
  <1>3. Len(s) \in Nat
    OBVIOUS
  <1> HIDE DEF I
  <1> QED
    BY <1>1, <1>2, <1>3

\* The beginning of a text, and of one that begins with a slash.
LEMMA Beginning ==
  ASSUME NEW X, NEW s \in Seq(X), NEW k \in 0..Len(s)
  PROVE  /\ SubSeq(s, 1, k) \in Seq(X)
         /\ Rooted(s) => SubSeq(s, 1, k) = <<>> \/ Rooted(SubSeq(s, 1, k))
  <1> DEFINE t == SubSeq(s, 1, k)
  <1>1. t \in Seq(X) /\ Len(t) = k /\ k \in Nat /\ \A i \in 1..k : t[i] = s[i]
    OBVIOUS
  <1> HIDE DEF t
  <1>2. t = <<>> \/ t[1] = s[1]
    <2>1. CASE k = 0
      BY <1>1, <2>1, EmptySeq
    <2>2. CASE k # 0
      <3>1. 1 \in 1..k
        BY <1>1, <2>2
      <3> QED
        BY <1>1, <3>1
    <2> QED
      BY <2>1, <2>2
  <1> QED
    BY <1>1, <1>2 DEF t, Rooted

LEMMA UpToType == ASSUME NEW X, NEW s \in Seq(X), NEW c PROVE UpTo(s, c) \in Seq(X)
  <1>1. CASE Before(s, c) = 0
    BY <1>1 DEF UpTo
  <1>2. CASE Before(s, c) # 0
    <2>1. Before(s, c) - 1 \in 0..Len(s)
      BY <1>2, BeforeIs
    <2> QED
      BY <1>2, <2>1, Beginning DEF UpTo
  <1> QED
    BY <1>1, <1>2

\* Character by character, and a slash stays one.
LEMMA DecodingType ==
  ASSUME NEW X, Alphabet \subseteq X, NEW s \in Seq(X)
  PROVE  /\ PercentDecode(s) \in Seq(X) /\ (Rooted(s) => Rooted(PercentDecode(s)))
         /\ LowerCase(s) \in Seq(X) /\ (Rooted(s) => Rooted(LowerCase(s)))
         /\ Slashes(s) \in Seq(X) /\ (Rooted(s) => Rooted(Slashes(s)))
  <1>1. \A c \in DOMAIN Escape : Escape[c] \in X
    BY DEF Escape, Alphabet
  <1>2. "/" \notin DOMAIN Escape
    BY DEF Escape
  <1>3. Len(s) \in Nat /\ DOMAIN s = 1..Len(s) /\ (\A i \in 1..Len(s) : s[i] \in X)
    OBVIOUS
  <1>4. ASSUME NEW t, t = [i \in 1..Len(s) |-> t[i]], \A i \in 1..Len(s) : t[i] \in X,
               Rooted(s) => t[1] = "/"
        PROVE  t \in Seq(X) /\ (Rooted(s) => Rooted(t))
    <2>1. t \in Seq(X) /\ Len(t) = Len(s)
      BY <1>3, <1>4
    <2>2. Rooted(s) => t # <<>>
      BY <2>1, EmptySeq DEF Rooted
    <2> QED
      BY <1>4, <2>1, <2>2 DEF Rooted
  <1>5. Rooted(s) => s[1] = "/" /\ 1 \in 1..Len(s)
    BY EmptySeq DEF Rooted
  <1> DEFINE p == PercentDecode(s)
             l == LowerCase(s)
             b == Slashes(s)
  <1>6. p \in Seq(X) /\ (Rooted(s) => Rooted(p))
    <2>1. p = [i \in 1..Len(s) |-> p[i]]
      BY <1>3 DEF PercentDecode
    <2>2. \A i \in 1..Len(s) : p[i] = IF s[i] \in DOMAIN Escape THEN Escape[s[i]] ELSE s[i]
      BY <1>3 DEF PercentDecode
    <2> HIDE DEF p
    <2>3. (\A i \in 1..Len(s) : p[i] \in X) /\ (Rooted(s) => p[1] = "/")
      BY <1>1, <1>2, <1>3, <1>5, <2>2
    <2> QED
      BY <1>4, <2>1, <2>3
  <1>7. l \in Seq(X) /\ (Rooted(s) => Rooted(l))
    <2>1. l = [i \in 1..Len(s) |-> l[i]]
      BY <1>3 DEF LowerCase
    <2>2. \A i \in 1..Len(s) : l[i] = IF s[i] = "A" THEN "a" ELSE s[i]
      BY <1>3 DEF LowerCase
    <2> HIDE DEF l
    <2>3. (\A i \in 1..Len(s) : l[i] \in X) /\ (Rooted(s) => l[1] = "/")
      BY <1>3, <1>5, <2>2 DEF Alphabet
    <2> QED
      BY <1>4, <2>1, <2>3
  <1>8. b \in Seq(X) /\ (Rooted(s) => Rooted(b))
    <2>1. b = [i \in 1..Len(s) |-> b[i]]
      BY <1>3 DEF Slashes
    <2>2. \A i \in 1..Len(s) : b[i] = IF s[i] = "\\" THEN "/" ELSE s[i]
      BY <1>3 DEF Slashes
    <2> HIDE DEF b
    <2>3. (\A i \in 1..Len(s) : b[i] \in X) /\ (Rooted(s) => b[1] = "/")
      BY <1>3, <1>5, <2>2 DEF Alphabet
    <2> QED
      BY <1>4, <2>1, <2>3
  <1> QED
    BY <1>6, <1>7, <1>8

\* Whatever segments there are, what is kept is of them.
LEMMA KeptType == ASSUME NEW Y PROVE \A segs \in Seq(Y) : Kept(segs) \in Seq(Y)
  <1> DEFINE T == {segs \in Seq(Y) : Kept(segs) \in Seq(Y)}
  <1>1. <<>> \in T
    BY KeptStep, EmptySeq
  <1>2. ASSUME NEW segs \in Seq(Y), NEW seg \in Y, segs \in T PROVE Append(segs, seg) \in T
    <2> DEFINE up == Kept(segs)
    <2>1. up \in Seq(Y) /\ Append(segs, seg) \in Seq(Y)
      BY <1>2, AppendProperties
    <2>2. Kept(Append(segs, seg)) = KeepOp({<<>>, Dot}, up, seg)
      BY KeptStep
    <2> HIDE DEF up
    <2>3. Append(up, seg) \in Seq(Y)
      BY <2>1, AppendProperties
    <2>4. up # <<>> => Front(up) \in Seq(Y)
      <3>1. ASSUME up # <<>> PROVE Len(up) - 1 \in 0..Len(up)
        BY <2>1, <3>1, EmptySeq
      <3> QED
        BY <2>1, <3>1, Beginning DEF Front
    <2>5. KeepOp({<<>>, Dot}, up, seg) \in Seq(Y)
      BY <2>1, <2>3, <2>4 DEF KeepOp
    <2> QED
      BY <2>1, <2>2, <2>5
  <1> HIDE DEF T
  <1>3. Seq(Y) \subseteq T
    BY <1>1, <1>2, Cut!Appending
  <1> QED
    BY <1>3 DEF T

LEMMA ResolveType ==
  ASSUME NEW X, "/" \in X, NEW s \in Seq(X)
  PROVE  Resolve(s) \in Seq(X) /\ Rooted(Resolve(s))
  <1> DEFINE kept == Kept(Split(s))
             end  == IF Last(Split(s)) \in {<<>>, Dot, DotDot} THEN <<"/">> ELSE <<>>
             j    == Join(kept)
  <1>1. Resolve(s) = IF kept = <<>> THEN <<"/">> ELSE j \o end
    BY ResolveIs
  <1>2. kept \in Seq(Seq(X))
    BY LastSegment, KeptType
  <1>3. end \in Seq(X)
    OBVIOUS
  <1> HIDE DEF kept, end
  <1>4. j \in Seq(X) /\ (kept # <<>> => j # <<>> /\ j[1] = "/")
    BY <1>2, JoinType
  <1> HIDE DEF j
  <1>5. kept # <<>> => j \o end \in Seq(X) /\ j \o end # <<>> /\ (j \o end)[1] = "/"
    BY <1>3, <1>4
  <1>6. <<"/">> \in Seq(X) /\ <<"/">> # <<>> /\ <<"/">>[1] = "/"
    OBVIOUS
  <1> QED
    BY <1>1, <1>5, <1>6 DEF Rooted

LEMMA UnparameteredType ==
  ASSUME NEW X, "/" \in X, NEW p \in Seq(X) PROVE Unparametered(p) \in Seq(X)
  <1> DEFINE segs == Split(p)
             rest == [i \in 1..(Len(segs) - 1) |-> UpTo(segs[i + 1], ";")]
  <1>1. segs \in Seq(Seq(X)) /\ Len(segs) - 1 \in Nat
    BY LastSegment, EmptySeq
  <1>2. ASSUME NEW i \in 1..(Len(segs) - 1) PROVE UpTo(segs[i + 1], ";") \in Seq(X)
    <2>1. segs[i + 1] \in Seq(X)
      BY <1>1
    <2> QED
      BY <2>1, UpToType
  <1>3. rest \in Seq(Seq(X))
    <2> DEFINE Y == Seq(X)
               k == Len(segs) - 1
    <2>1. \A i \in 1..k : UpTo(segs[i + 1], ";") \in Y
      BY <1>2
    <2> HIDE DEF Y
    <2>2. rest \in [1..k -> Y]
      BY <2>1
    <2>3. k \in Nat
      BY <1>1
    <2> HIDE DEF rest, k
    <2>4. rest \in Seq(Y)
      BY <2>2, <2>3
    <2> QED
      BY <2>4 DEF Y
  <1> HIDE DEF rest
  <1>4. Join(rest) \in Seq(X)
    BY <1>3, JoinType
  <1> QED
    BY <1>4 DEF Unparametered, rest

LEMMA ReadingsType ==
  ASSUME NEW X, Alphabet \subseteq X, NEW u \in Seq(X), NEW path \in Readings(u)
  PROVE  path \in Seq(X) /\ Rooted(path)
  <1> DEFINE p == UpTo(u, "?")
             d == Slashes(PercentDecode(p))
  <1>1. "/" \in X /\ p \in Seq(X)
    BY UpToType DEF Alphabet
  <1>2. d \in Seq(X) /\ Unparametered(p) \in Seq(X)
    BY <1>1, DecodingType, UnparameteredType
  <1>3. Normalise(u) # Refused
    BY DEF Readings
  <1>4. path \in {Normalise(u)} \cup {LowerCase(PercentDecode(Resolve(q))) : q \in {p, Unparametered(p)}}
    BY <1>3 DEF Readings
  <1>5. Normalise(u) = LowerCase(Resolve(d))
    BY <1>3 DEF Normalise
  <1> HIDE DEF p, d
  <1>6. Normalise(u) \in Seq(X) /\ Rooted(Normalise(u))
    BY <1>1, <1>2, <1>5, ResolveType, DecodingType
  <1>7. ASSUME NEW q \in {p, Unparametered(p)}
        PROVE  LowerCase(PercentDecode(Resolve(q))) \in Seq(X) /\ Rooted(LowerCase(PercentDecode(Resolve(q))))
    <2>1. Resolve(q) \in Seq(X) /\ Rooted(Resolve(q))
      BY <1>1, <1>2, ResolveType
    <2>2. PercentDecode(Resolve(q)) \in Seq(X) /\ Rooted(PercentDecode(Resolve(q)))
      BY <2>1, DecodingType
    <2> QED
      BY <2>2, DecodingType
  <1> QED
    BY <1>4, <1>6, <1>7

LEMMA BaseType ==
  ASSUME NEW X, Alphabet \subseteq X, NEW pattern \in Seq(X)
  PROVE  Base(pattern) \in Seq(X) /\ (Base(pattern) = <<>> \/ Rooted(Base(pattern)))
  <1> DEFINE t == TrimEnd(pattern, "*")
             q == LowerCase(Resolve(t))
  <1>1. "/" \in X
    BY DEF Alphabet
  <1>2. t \in Seq(X)
    BY TrimEndIs, Beginning
  <1> HIDE DEF t
  <1>3. Resolve(t) \in Seq(X) /\ Rooted(Resolve(t))
    BY <1>1, <1>2, ResolveType
  <1>4. q \in Seq(X) /\ Rooted(q)
    BY <1>3, DecodingType
  <1>5. Base(pattern) = TrimEnd(q, "/")
    BY DEF Base, t
  <1> HIDE DEF q
  <1>6. PICK k \in 0..Len(q) : TrimEnd(q, "/") = SubSeq(q, 1, k)
    BY <1>4, TrimEndIs
  <1> QED
    BY <1>4, <1>5, <1>6, Beginning

\* matches compares strings; on a reading of a request, for patterns and paths of
\* any length, that is whether the one's segments begin with the other's.
THEOREM MatchesBySegment ==
  ASSUME NEW X, Alphabet \subseteq X, NEW u \in Seq(X), NEW path \in Readings(u),
         NEW pattern \in Seq(X)
  PROVE  Matches(pattern, path) <=> Under(path, pattern)
  <1> DEFINE b == Base(pattern)
  <1>1. "/" \in X /\ path \in Seq(X) /\ Rooted(path)
    BY ReadingsType DEF Alphabet
  <1>2. b \in Seq(X) /\ (b = <<>> \/ Rooted(b))
    BY BaseType
  <1>3. Matches(pattern, path) <=> b = <<>> \/ path = b \/ Below(b, path)
    BY DEF Matches, Below
  <1>4. Under(path, pattern) <=> IsPrefix(Segments(b), Segments(path))
    BY DEF Under
  <1> HIDE DEF b
  <1>5. b = <<>> \/ path = b \/ Below(b, path) <=> IsPrefix(Segments(b), Segments(path))
    BY <1>1, <1>2, MatchesIsUnder
  <1> QED
    BY <1>3, <1>4, <1>5

\* The characters of a path and of a pattern.
Char == Alphabet \cup {"%2f", "%5c", "%2e", "%41", "%3f", "%25", "%zz", "b", ";", "*"}

UriOK == uri \in Seq(Char)

LEMMA Chars ==
  /\ Alphabet \subseteq Char
  /\ Separator \subseteq Seq(Char) /\ Name \subseteq Seq(Char) /\ Pattern \subseteq Seq(Char)
  <1>1. {"/", "\\", ".", "A", "a", "?", "%2f", "%2e", "%41", "%3f", "%25", "%zz", "b", ";", "*"} \subseteq Char
    BY DEF Char, Alphabet
  <1> HIDE DEF Char
  <1>2. \A c, d, e \in Char : <<c>> \in Seq(Char) /\ <<c, d>> \in Seq(Char) /\ <<c, d, e>> \in Seq(Char)
    OBVIOUS
  <1>3. <<>> \in Seq(Char)
    OBVIOUS
  <1>4. Separator \subseteq Seq(Char)
    BY <1>1, <1>2 DEF Separator
  <1>5. /\ <<"a">> \in Seq(Char) /\ <<"A">> \in Seq(Char) /\ <<"%41">> \in Seq(Char)
        /\ <<".">> \in Seq(Char) /\ <<"%25">> \in Seq(Char) /\ <<"?">> \in Seq(Char)
        /\ <<"%3f">> \in Seq(Char) /\ <<"%zz">> \in Seq(Char)
    BY <1>1, <1>2
  <1>6. /\ <<"a", "b">> \in Seq(Char) /\ <<".", ".">> \in Seq(Char) /\ <<"%2e", ".">> \in Seq(Char)
        /\ <<"a", ";", "b">> \in Seq(Char) /\ <<".", ".", ";">> \in Seq(Char)
    BY <1>1, <1>2
  <1>7. Name \subseteq Seq(Char)
    BY <1>3, <1>5, <1>6, Zenon DEF Name
  <1>8. /\ <<"/", "a", "/", "*">> \in Seq(Char) /\ <<"/", "a", "/", "a", "/", "*">> \in Seq(Char)
    <2>1. \A c, d, e \in Char : <<c, d, c, e>> \in Seq(Char)
      OBVIOUS
    <2>2. \A c, d, e \in Char : <<c, d, c, d, c, e>> \in Seq(Char)
      OBVIOUS
    <2>3. "/" \in Char /\ "a" \in Char /\ "*" \in Char
      BY <1>1
    <2> QED
      BY <2>1, <2>2, <2>3, Zenon
  <1>9. Pattern \subseteq Seq(Char)
    BY <1>3, <1>8, Zenon DEF Pattern
  <1>10. Alphabet \subseteq Char
    BY DEF Char
  <1> QED
    BY <1>4, <1>7, <1>9, <1>10

LEMMA UriAlwaysOK == Spec => []UriOK
  <1>1. Init => UriOK
    BY DEF Init, UriOK
  <1>2. ASSUME UriOK, Longer PROVE UriOK'
    <2>1. PICK s \in Separator, n \in Name : uri' = uri \o s \o n
      BY <1>2 DEF Longer
    <2>2. s \in Seq(Char) /\ n \in Seq(Char)
      BY Chars
    <2> HIDE DEF Char
    <2> QED
      BY <1>2, <2>1, <2>2 DEF UriOK
  <1>3. UriOK /\ [Next]_vars => UriOK'
    BY <1>2 DEF UriOK, Next, OneMore, Type, vars
  <1> QED
    BY <1>1, <1>3, PTL DEF Spec

\* What decide allows is allowed whichever reading the upstream serves, under a
\* live grant and no live deny, each by its segments: for paths, rules and
\* patterns of any number and length.
THEOREM AlwaysAllowedEverywhere == Spec => []AllowedEverywhere
  <1>1. ASSUME RulesOK, UriOK PROVE AllowedEverywhere
    <2> DEFINE served == {LowerCase(p) : p \in Served}
    <2>1. SUFFICES ASSUME Verdict = "allow", NEW path \in served
                   PROVE  /\ \E i \in DOMAIN rules : rules[i].effect = "allow" /\ Live(rules[i], now)
                                                        /\ Under(path, rules[i].pattern)
                          /\ \A i \in DOMAIN rules : rules[i].effect = "deny" /\ Live(rules[i], now) =>
                                                        ~Under(path, rules[i].pattern)
      BY DEF AllowedEverywhere
    <2>2. Decide(TRUE, rules, uri, now) = "allow"
      BY <2>1 DEF Verdict
    <2>3. Normalise(uri) # Refused
      BY <2>2, PassesEveryReading
    <2>4. path \in Readings(uri)
      <3>1. Normalise(uri) = LowerCase(Resolve(Slashes(PercentDecode(Path))))
        BY <2>3 DEF Normalise, Path
      <3>2. Readings(uri) = {Normalise(uri)} \cup
              {LowerCase(PercentDecode(Resolve(p))) : p \in {Path, Unparametered(Path)}}
        BY <2>3 DEF Readings, Path
      <3> QED
        BY <2>1, <3>1, <3>2 DEF Served
    <2> HIDE DEF served
    <2>5. Grants(rules, path, now) # {} /\ Denies(rules, path, now) = {}
      BY <2>2, <2>4, PassesEveryReading
    <2>6. ASSUME NEW i \in DOMAIN rules
          PROVE  Matches(rules[i].pattern, path) <=> Under(path, rules[i].pattern)
      <3>1. rules[i] \in Rule
        BY <1>1 DEF RulesOK
      <3>2. rules[i].pattern \in Pattern
        BY <3>1 DEF Rule
      <3> QED
        BY <1>1, <2>4, <3>2, Chars, MatchesBySegment DEF UriOK
    <2> QED
      BY <2>5, <2>6 DEF Grants, Denies
  <1> QED
    BY <1>1, RulesAlwaysOK, UriAlwaysOK, PTL

-----------------------------------------------------------------------------
(***************************************************************************)
(* ADR-0037: decoding and then resolving is resolving and then decoding,   *)
(* so long as no escape is of a slash or a dot.                            *)
(***************************************************************************)
Decoded(c) == IF c \in DOMAIN Escape THEN Escape[c] ELSE c
DecodeSegments(segs) == [i \in DOMAIN segs |-> PercentDecode(segs[i])]

\* The characters that read one way.
Plain(X) == X \ {";", "\\", "%2f", "%5c", "%2e", "%25"}

LEMMA DecodedIs ==
  ASSUME NEW X, Alphabet \subseteq X, NEW c \in Plain(X)
  PROVE  /\ Decoded(c) \in Plain(X)
         /\ Decoded(c) = "/" <=> c = "/"
         /\ Decoded(c) = "." <=> c = "."
         /\ Decoded(c) # "\\"
  <1>1. c \notin {";", "\\", "%2f", "%5c", "%2e", "%25"} /\ c \in X
    BY DEF Plain
  <1>2. "A" \in Plain(X) /\ "?" \in Plain(X)
    BY DEF Plain, Alphabet
  <1>3. DOMAIN Escape = {"%2f", "%5c", "%2e", "%41", "%3f", "%25"} /\ Escape["%41"] = "A" /\ Escape["%3f"] = "?"
    BY DEF Escape
  <1>4. CASE c = "%41"
    BY <1>2, <1>3, <1>4 DEF Decoded
  <1>5. CASE c = "%3f"
    BY <1>2, <1>3, <1>5 DEF Decoded
  <1>6. CASE c \notin {"%41", "%3f"}
    <2>1. Decoded(c) = c
      BY <1>1, <1>3, <1>6 DEF Decoded
    <2> QED
      BY <1>1, <2>1
  <1> QED
    BY <1>4, <1>5, <1>6

LEMMA DecodePointwise ==
  ASSUME NEW X, NEW s \in Seq(X)
  PROVE  /\ PercentDecode(s) = [i \in 1..Len(s) |-> Decoded(s[i])]
         /\ Len(PercentDecode(s)) = Len(s)
         /\ PercentDecode(s) \in Seq({Decoded(c) : c \in X})
  <1> DEFINE p == PercentDecode(s)
             Y == {Decoded(c) : c \in X}
  <1>1. p = [i \in 1..Len(s) |-> Decoded(s[i])]
    BY DEF PercentDecode, Decoded
  <1>2. Len(s) \in Nat /\ \A i \in 1..Len(s) : Decoded(s[i]) \in Y
    OBVIOUS
  <1> HIDE DEF Y
  <1>3. p \in [1..Len(s) -> Y]
    BY <1>1, <1>2
  <1> HIDE DEF p
  <1>4. p \in Seq(Y) /\ Len(p) = Len(s)
    BY <1>2, <1>3
  <1> QED
    BY <1>1, <1>4 DEF p, Y

LEMMA DecodeAppend ==
  ASSUME NEW X, NEW s \in Seq(X), NEW c \in X
  PROVE  PercentDecode(Append(s, c)) = Append(PercentDecode(s), Decoded(c))
  <1> DEFINE Y == {Decoded(d) : d \in X}
             q == Append(s, c)
             a == PercentDecode(q)
             p == PercentDecode(s)
             b == Append(p, Decoded(c))
             n == Len(s)
  <1>1. q \in Seq(X) /\ n \in Nat /\ Len(q) = n + 1 /\ q[n + 1] = c /\ \A i \in 1..n : q[i] = s[i]
    BY AppendProperties
  <1> HIDE DEF q, n
  <1>2. a \in Seq(Y) /\ Len(a) = n + 1 /\ \A i \in 1..(n + 1) : a[i] = Decoded(q[i])
    BY <1>1, DecodePointwise
  <1>3. p \in Seq(Y) /\ Len(p) = n /\ \A i \in 1..n : p[i] = Decoded(s[i])
    BY DecodePointwise DEF n
  <1>4. Decoded(c) \in Y
    OBVIOUS
  <1> HIDE DEF a, p, Y
  <1>5. b \in Seq(Y) /\ Len(b) = n + 1 /\ b[n + 1] = Decoded(c) /\ \A i \in 1..n : b[i] = p[i]
    BY <1>3, <1>4, AppendProperties
  <1> HIDE DEF b
  <1>6. \A i \in 1..(n + 1) : a[i] = b[i]
    BY <1>1, <1>2, <1>3, <1>5
  <1>7. a = b
    BY <1>1, <1>2, <1>5, <1>6, SeqEqual
  <1> QED
    BY <1>7 DEF a, b, p, q

LEMMA DecodeNil == PercentDecode(<<>>) = <<>>
  BY DEF PercentDecode

LEMMA DecodeType ==
  ASSUME NEW X, Alphabet \subseteq X, NEW s \in Seq(Plain(X))
  PROVE  PercentDecode(s) \in Seq(Plain(X))
  <1>1. {Decoded(c) : c \in Plain(X)} \subseteq Plain(X)
    BY DecodedIs
  <1>2. PercentDecode(s) \in Seq({Decoded(c) : c \in Plain(X)})
    BY DecodePointwise
  <1> DEFINE Y == {Decoded(c) : c \in Plain(X)}
  <1> HIDE DEF Y
  <1> QED
    BY <1>1, <1>2, SeqMonotonic DEF Y

LEMMA DecodeConcat ==
  ASSUME NEW X, NEW a \in Seq(X)
  PROVE  \A b \in Seq(X) : PercentDecode(Cat(a, b)) = Cat(PercentDecode(a), PercentDecode(b))
  <1> DEFINE Y == {Decoded(c) : c \in X}
             P(b) == PercentDecode(Cat(a, b)) = Cat(PercentDecode(a), PercentDecode(b))
             T == {b \in Seq(X) : P(b)}
  <1>1. PercentDecode(a) \in Seq(Y)
    BY DecodePointwise
  <1>2. P(<<>>)
    <2>1. Cat(a, <<>>) = a /\ Cat(PercentDecode(a), <<>>) = PercentDecode(a)
      <3> HIDE DEF Y
      <3> QED
        BY <1>1, ConcatEmptySeq DEF Cat
    <2> QED
      BY <2>1, DecodeNil
  <1>3. ASSUME NEW b \in Seq(X), NEW c \in X, P(b) PROVE P(Append(b, c))
    <2> DEFINE p == PercentDecode(a)
               q == PercentDecode(b)
               d == Decoded(c)
    <2>1. q \in Seq(Y) /\ d \in Y
      BY DecodePointwise
    <2>2. Cat(a, Append(b, c)) = Append(Cat(a, b), c) /\ Cat(a, b) \in Seq(X)
      BY CatAppend
    <2>3. PercentDecode(Append(Cat(a, b), c)) = Append(PercentDecode(Cat(a, b)), d)
      BY <2>2, DecodeAppend
    <2>4. PercentDecode(Append(b, c)) = Append(q, d)
      BY DecodeAppend
    <2> HIDE DEF Y, q, d
    <2>5. Append(Cat(p, q), d) = Cat(p, Append(q, d))
      BY <1>1, <2>1, CatAppend
    <2> QED
      BY <1>3, <2>2, <2>3, <2>4, <2>5 DEF q
  <1> HIDE DEF P
  <1>4. <<>> \in T /\ \A b \in Seq(X), c \in X : b \in T => Append(b, c) \in T
    BY <1>2, <1>3, AppendProperties, EmptySeq
  <1> HIDE DEF T
  <1>5. Seq(X) \subseteq T
    BY <1>4, Cut!Appending
  <1> QED
    BY <1>5 DEF P, T

LEMMA FrontLast ==
  ASSUME NEW Y, NEW a \in Seq(Y), NEW c \in Y
  PROVE  Front(Append(a, c)) = a /\ Last(Append(a, c)) = c
  <1> DEFINE q == Append(a, c)
             n == Len(a)
  <1>1. /\ q \in Seq(Y) /\ Len(q) = n + 1 /\ n \in Nat /\ q[n + 1] = c
        /\ \A i \in 1..n : q[i] = a[i]
    BY AppendProperties
  <1> HIDE DEF q, n
  <1>2. SubSeq(q, 1, n) = a
    BY <1>1 DEF n
  <1>3. Len(q) - 1 = n
    BY <1>1
  <1> QED
    BY <1>1, <1>2, <1>3 DEF Front, Last, q

LEMMA SegmentsAppend ==
  ASSUME NEW Y, NEW segs \in Seq(Y), NEW seg \in Y
  PROVE  DecodeSegments(Append(segs, seg)) = Append(DecodeSegments(segs), PercentDecode(seg))
  <1> DEFINE Z == {PercentDecode(d) : d \in Y}
             q == Append(segs, seg)
             a == DecodeSegments(q)
             p == DecodeSegments(segs)
             e == PercentDecode(seg)
             b == Append(p, e)
             n == Len(segs)
  <1>1. /\ q \in Seq(Y) /\ n \in Nat /\ Len(q) = n + 1 /\ q[n + 1] = seg
        /\ \A i \in 1..n : q[i] = segs[i]
    BY AppendProperties
  <1>2. e \in Z /\ \A i \in 1..n : segs[i] \in Y
    OBVIOUS
  <1> HIDE DEF q
  <1>3. p = [i \in 1..n |-> PercentDecode(segs[i])] /\ a = [i \in 1..(n + 1) |-> PercentDecode(q[i])]
    BY <1>1 DEF DecodeSegments
  <1>4. \A i \in 1..(n + 1) : q[i] \in Y
    BY <1>1, <1>2
  <1> HIDE DEF n, e
  <1>5. p \in [1..n -> Z] /\ a \in [1..(n + 1) -> Z]
    BY <1>2, <1>3, <1>4
  <1>6. /\ \A i \in 1..n : p[i] = PercentDecode(segs[i])
        /\ \A i \in 1..(n + 1) : a[i] = PercentDecode(q[i])
    BY <1>3
  <1> HIDE DEF a, p, Z
  <1>7. p \in Seq(Z) /\ Len(p) = n /\ a \in Seq(Z) /\ Len(a) = n + 1
    BY <1>1, <1>5
  <1>8. b \in Seq(Z) /\ Len(b) = n + 1 /\ b[n + 1] = e /\ \A i \in 1..n : b[i] = p[i]
    BY <1>2, <1>7, AppendProperties
  <1> HIDE DEF b
  <1>9. \A i \in 1..(n + 1) : a[i] = b[i]
    BY <1>1, <1>6, <1>8 DEF e
  <1>10. a = b
    BY <1>1, <1>7, <1>8, <1>9, SeqEqual
  <1> QED
    BY <1>10 DEF a, b, p, q, e

LEMMA SegmentsNil == DecodeSegments(<<>>) = <<>>
  BY DEF DecodeSegments

LEMMA SegmentsType ==
  ASSUME NEW X, Alphabet \subseteq X
  PROVE  \A segs \in Seq(Seq(Plain(X))) : DecodeSegments(segs) \in Seq(Seq(Plain(X)))
  <1> DEFINE Y == Seq(Plain(X))
             T == {segs \in Seq(Y) : DecodeSegments(segs) \in Seq(Y)}
  <1>1. \A seg \in Y : PercentDecode(seg) \in Y
    BY DecodeType
  <1> HIDE DEF Y
  <1>2. <<>> \in T
    BY SegmentsNil, EmptySeq
  <1>3. ASSUME NEW segs \in Seq(Y), NEW seg \in Y, segs \in T PROVE Append(segs, seg) \in T
    <2> DEFINE D == DecodeSegments(segs)
               e == PercentDecode(seg)
    <2>1. D \in Seq(Y) /\ e \in Y /\ Append(segs, seg) \in Seq(Y)
      BY <1>1, <1>3, AppendProperties
    <2>2. DecodeSegments(Append(segs, seg)) = Append(D, e)
      BY SegmentsAppend
    <2> HIDE DEF D, e
    <2>3. Append(D, e) \in Seq(Y)
      BY <2>1, AppendProperties
    <2> QED
      BY <2>1, <2>2, <2>3
  <1> HIDE DEF T
  <1>4. Seq(Y) \subseteq T
    BY <1>2, <1>3, Cut!Appending
  <1> QED
    BY <1>4 DEF T, Y

LEMMA SplitDecode ==
  ASSUME NEW X, Alphabet \subseteq X
  PROVE  \A s \in Seq(Plain(X)) : Split(PercentDecode(s)) = DecodeSegments(Split(s))
  <1> DEFINE C == Plain(X)
             Y == Seq(C)
             P(s) == Split(PercentDecode(s)) = DecodeSegments(Split(s))
             T == {s \in Seq(C) : P(s)}
  <1>1. "/" \in C
    BY DEF Plain, Alphabet
  <1>2. <<>> \in Y /\ <<>> \in Seq(Y) /\ Append(<<>>, <<>>) = << <<>> >>
    OBVIOUS
  <1>3. \A s \in Y : PercentDecode(s) \in Y
    BY DecodeType
  <1>4. \A c \in C : Decoded(c) \in C /\ (Decoded(c) = "/" <=> c = "/")
    BY DecodedIs
  <1> HIDE DEF C
  <1>5. P(<<>>)
    <2> HIDE DEF Y
    <2>1. DecodeSegments(Append(<<>>, <<>>)) = Append(DecodeSegments(<<>>), PercentDecode(<<>>))
      BY <1>2, SegmentsAppend
    <2> QED
      BY <1>2, <2>1, SplitNil, SegmentsNil, DecodeNil
  <1>6. ASSUME NEW s \in Seq(C), NEW c \in C, P(s) PROVE P(Append(s, c))
    <2> DEFINE p == PercentDecode(s)
               d == Decoded(c)
               L == Split(s)
    <2>1. PercentDecode(Append(s, c)) = Append(p, d)
      BY DecodeAppend
    <2>2. p \in Seq(C) /\ d \in C /\ L \in Seq(Y)
      BY <1>3, <1>4, LastSegment
    <2> HIDE DEF p, d
    <2>3. CASE c = "/"
      <3>1. Split(Append(p, d)) = Append(Split(p), <<>>)
        BY <1>1, <1>4, <2>2, <2>3, SplitSlash DEF d
      <3>2. Split(Append(s, c)) = Append(L, <<>>)
        BY <1>1, <2>3, SplitSlash
      <3> HIDE DEF Y, L
      <3>3. DecodeSegments(Append(L, <<>>)) = Append(DecodeSegments(L), <<>>)
        BY <1>2, <2>2, SegmentsAppend, DecodeNil
      <3> QED
        BY <1>6, <2>1, <3>1, <3>2, <3>3 DEF p, L
    <2>4. CASE c # "/"
      <3> DEFINE first == Front(L)
                 last  == Last(L)
                 more  == Append(last, c)
                 e     == PercentDecode(last)
                 F     == DecodeSegments(first)
      <3>1. first \in Seq(Y) /\ last \in Y /\ L = Append(first, last)
        BY LastSegment
      <3>2. Split(Append(s, c)) = Append(first, more)
        BY <2>4, SplitOther
      <3>3. more \in Y /\ PercentDecode(more) = Append(e, d)
        BY <3>1, AppendProperties, DecodeAppend DEF d
      <3>4. e \in Y
        BY <1>3, <3>1
      <3>5. F \in Seq(Y)
        BY <3>1, SegmentsType DEF C
      <3>6. Split(Append(p, d)) = Append(Front(Split(p)), Append(Last(Split(p)), d))
        BY <1>4, <2>2, <2>4, SplitOther DEF d
      <3> HIDE DEF Y, L, first, last, more, e, F
      <3>7. DecodeSegments(L) = Append(F, e) /\ DecodeSegments(Append(first, more)) = Append(F, Append(e, d))
        BY <3>1, <3>3, SegmentsAppend DEF F, e
      <3>8. Split(p) = Append(F, e)
        BY <1>6, <3>7 DEF L, p
      <3>9. Front(Split(p)) = F /\ Last(Split(p)) = e
        BY <3>4, <3>5, <3>8, FrontLast
      <3> QED
        BY <2>1, <3>2, <3>6, <3>7, <3>9
    <2> QED
      BY <2>3, <2>4
  <1> HIDE DEF P, Y
  <1>7. <<>> \in T /\ \A s \in Seq(C), c \in C : s \in T => Append(s, c) \in T
    BY <1>5, <1>6, AppendProperties, EmptySeq
  <1> HIDE DEF T
  <1>8. Seq(C) \subseteq T
    BY <1>7, Cut!Appending
  <1> QED
    BY <1>8 DEF P, T, C

\* A dot segment is one before it is decoded and after.
LEMMA DotDecode ==
  ASSUME NEW X, Alphabet \subseteq X, NEW seg \in Seq(Plain(X))
  PROVE  /\ PercentDecode(seg) \in {<<>>, Dot} <=> seg \in {<<>>, Dot}
         /\ PercentDecode(seg) = DotDot <=> seg = DotDot
  <1> DEFINE C == Plain(X)
             e == PercentDecode(seg)
             n == Len(seg)
  <1>1. \A c \in C : Decoded(c) = "." <=> c = "."
    BY DecodedIs
  <1>2. n \in Nat /\ (\A i \in 1..n : seg[i] \in C)
    OBVIOUS
  <1>3. Len(e) = n /\ (\A i \in 1..n : e[i] = Decoded(seg[i])) /\ e \in Seq({Decoded(c) : c \in C})
    BY DecodePointwise
  <1>4. \A i \in 1..n : e[i] = "." <=> seg[i] = "."
    BY <1>1, <1>2, <1>3
  <1> DEFINE Z == {Decoded(c) : c \in C}
  <1> HIDE DEF C, e, n, Z
  <1>5. (seg = <<>> <=> n = 0) /\ (e = <<>> <=> n = 0)
    BY <1>3, EmptySeq DEF n, C, Z
  <1>6. seg = Dot <=> n = 1 /\ seg[1] = "."
    <2>1. ASSUME n = 1, seg[1] = "." PROVE seg = Dot
      BY <2>1 DEF n, Dot
    <2> QED
      BY <2>1 DEF n, Dot
  <1>7. e = Dot <=> n = 1 /\ e[1] = "."
    <2>1. ASSUME n = 1, e[1] = "." PROVE e = Dot
      BY <1>3, <2>1 DEF Dot, Z
    <2> QED
      BY <1>3, <2>1 DEF Dot
  <1>8. seg = DotDot <=> n = 2 /\ seg[1] = "." /\ seg[2] = "."
    <2>1. ASSUME n = 2, seg[1] = ".", seg[2] = "." PROVE seg = DotDot
      BY <2>1 DEF n, DotDot
    <2> QED
      BY <2>1 DEF n, DotDot
  <1>9. e = DotDot <=> n = 2 /\ e[1] = "." /\ e[2] = "."
    <2>1. ASSUME n = 2, e[1] = ".", e[2] = "." PROVE e = DotDot
      BY <1>3, <2>1 DEF DotDot, Z
    <2> QED
      BY <1>3, <2>1 DEF DotDot
  <1>10. /\ n = 1 => (e[1] = "." <=> seg[1] = ".")
         /\ n = 2 => (e[1] = "." <=> seg[1] = ".") /\ (e[2] = "." <=> seg[2] = ".")
    BY <1>4
  <1> QED
    BY <1>5, <1>6, <1>7, <1>8, <1>9, <1>10 DEF e

LEMMA KeptDecode ==
  ASSUME NEW X, Alphabet \subseteq X
  PROVE  \A segs \in Seq(Seq(Plain(X))) : Kept(DecodeSegments(segs)) = DecodeSegments(Kept(segs))
  <1> DEFINE Y == Seq(Plain(X))
             P(segs) == Kept(DecodeSegments(segs)) = DecodeSegments(Kept(segs))
             T == {segs \in Seq(Y) : P(segs)}
  <1>1. \A seg \in Y : /\ PercentDecode(seg) \in Y
                       /\ PercentDecode(seg) \in {<<>>, Dot} <=> seg \in {<<>>, Dot}
                       /\ PercentDecode(seg) = DotDot <=> seg = DotDot
    BY DecodeType, DotDecode
  <1>2. \A segs \in Seq(Y) : DecodeSegments(segs) \in Seq(Y)
    BY SegmentsType
  <1> HIDE DEF Y
  <1>3. P(<<>>)
    BY KeptStep, SegmentsNil
  <1>4. ASSUME NEW segs \in Seq(Y), NEW seg \in Y, P(segs) PROVE P(Append(segs, seg))
    <2> DEFINE D  == DecodeSegments(segs)
               e  == PercentDecode(seg)
               up == Kept(segs)
               dp == DecodeSegments(up)
    <2>1. D \in Seq(Y) /\ e \in Y /\ up \in Seq(Y) /\ dp \in Seq(Y)
      BY <1>1, <1>2, KeptType
    <2>2. Kept(Append(segs, seg)) = KeepOp({<<>>, Dot}, up, seg)
      BY KeptStep
    <2>3. DecodeSegments(Append(segs, seg)) = Append(D, e)
      BY SegmentsAppend
    <2>4. Kept(Append(D, e)) = KeepOp({<<>>, Dot}, dp, e)
      <3>1. Kept(D) = dp
        BY <1>4
      <3> HIDE DEF D, e, dp
      <3> QED
        BY <2>1, <3>1, KeptStep
    <2>5. up = <<>> => dp = <<>>
      BY SegmentsNil
    <2>6. ASSUME up # <<>> PROVE dp # <<>> /\ DecodeSegments(Front(up)) = Front(dp)
      <3>1. PICK first \in Seq(Y), last \in Y : up = Append(first, last)
        BY <2>1, <2>6, SequenceEmptyOrAppend
      <3>2. dp = Append(DecodeSegments(first), PercentDecode(last))
        BY <3>1, SegmentsAppend
      <3>3. DecodeSegments(first) \in Seq(Y) /\ PercentDecode(last) \in Y
        BY <1>1, <1>2
      <3> HIDE DEF up, dp
      <3>4. dp # <<>> /\ Front(dp) = DecodeSegments(first)
        BY <3>2, <3>3, FrontLast, AppendProperties
      <3>5. Front(up) = first
        BY <3>1, FrontLast
      <3> QED
        BY <3>4, <3>5
    <2>7. DecodeSegments(Append(up, seg)) = Append(dp, e)
      BY <2>1, SegmentsAppend
    <2>8. (e \in {<<>>, Dot} <=> seg \in {<<>>, Dot}) /\ (e = DotDot <=> seg = DotDot)
      BY <1>1
    <2>9. DecodeSegments(KeepOp({<<>>, Dot}, up, seg)) = KeepOp({<<>>, Dot}, dp, e)
      <3>1. CASE seg \in {<<>>, Dot}
        <4>1. KeepOp({<<>>, Dot}, up, seg) = up /\ KeepOp({<<>>, Dot}, dp, e) = dp
          <5> HIDE DEF e, dp, up
          <5> QED
            BY <2>8, <3>1 DEF KeepOp
        <4> QED
          BY <4>1
      <3>2. CASE seg \notin {<<>>, Dot} /\ seg = DotDot
        <4>1. /\ KeepOp({<<>>, Dot}, up, seg) = IF up = <<>> THEN up ELSE Front(up)
              /\ KeepOp({<<>>, Dot}, dp, e) = IF dp = <<>> THEN dp ELSE Front(dp)
          <5> HIDE DEF e, dp, up
          <5> QED
            BY <2>8, <3>2 DEF KeepOp
        <4>2. CASE up = <<>>
          BY <2>5, <4>1, <4>2
        <4>3. CASE up # <<>>
          BY <2>6, <4>1, <4>3
        <4> QED
          BY <4>2, <4>3
      <3>3. CASE seg \notin {<<>>, Dot} /\ seg # DotDot
        <4>1. KeepOp({<<>>, Dot}, up, seg) = Append(up, seg) /\ KeepOp({<<>>, Dot}, dp, e) = Append(dp, e)
          <5> HIDE DEF e, dp, up
          <5> QED
            BY <2>8, <3>3 DEF KeepOp
        <4> QED
          BY <2>7, <4>1
      <3> QED
        BY <3>1, <3>2, <3>3
    <2> QED
      BY <2>2, <2>3, <2>4, <2>9
  <1> HIDE DEF P
  <1>5. <<>> \in T /\ \A segs \in Seq(Y), seg \in Y : segs \in T => Append(segs, seg) \in T
    BY <1>3, <1>4, AppendProperties, EmptySeq
  <1> HIDE DEF T
  <1>6. Seq(Y) \subseteq T
    BY <1>5, Cut!Appending
  <1> QED
    BY <1>6 DEF P, T, Y

LEMMA SlashDecode == PercentDecode(<<"/">>) = <<"/">>
  <1>1. <<>> \in Seq({"/"}) /\ Append(<<>>, "/") = <<"/">>
    OBVIOUS
  <1>2. PercentDecode(Append(<<>>, "/")) = Append(PercentDecode(<<>>), Decoded("/"))
    BY <1>1, DecodeAppend
  <1>3. Decoded("/") = "/"
    BY DEF Decoded, Escape
  <1> QED
    BY <1>1, <1>2, <1>3, DecodeNil

LEMMA JoinDecode ==
  ASSUME NEW X, Alphabet \subseteq X
  PROVE  \A segs \in Seq(Seq(Plain(X))) : Join(DecodeSegments(segs)) = PercentDecode(Join(segs))
  <1> DEFINE C == Plain(X)
             Y == Seq(C)
             P(segs) == Join(DecodeSegments(segs)) = PercentDecode(Join(segs))
             T == {segs \in Seq(Y) : P(segs)}
             slash == <<"/">>
  <1>1. \A seg \in Y : PercentDecode(seg) \in Y
    BY DecodeType
  <1>2. \A segs \in Seq(Y) : DecodeSegments(segs) \in Seq(Y) /\ Join(segs) \in Y
    <2>1. "/" \in C
      BY DEF Plain, Alphabet
    <2> QED
      BY <2>1, SegmentsType, JoinType
  <1>3. slash \in Y
    BY DEF Plain, Alphabet
  <1>4. PercentDecode(slash) = slash
    BY SlashDecode
  <1>5. \A a, b \in Y : PercentDecode(Cat(a, b)) = Cat(PercentDecode(a), PercentDecode(b))
    BY DecodeConcat
  <1>6. \A a, b \in Y : Cat(a, b) \in Y
    BY CatType
  <1>7. \A segs \in Seq(Y), seg \in Y : Join(Append(segs, seg)) = Cat(Cat(Join(segs), slash), seg)
    BY JoinStep DEF Cat
  <1> HIDE DEF Y, slash
  <1>8. P(<<>>)
    BY JoinStep, SegmentsNil, DecodeNil
  <1>9. ASSUME NEW segs \in Seq(Y), NEW seg \in Y, P(segs) PROVE P(Append(segs, seg))
    <2> DEFINE D == DecodeSegments(segs)
               e == PercentDecode(seg)
               j == Join(segs)
    <2>1. D \in Seq(Y) /\ e \in Y /\ j \in Y
      BY <1>1, <1>2
    <2>2. DecodeSegments(Append(segs, seg)) = Append(D, e)
      BY SegmentsAppend
    <2>3. PercentDecode(j) = Join(D)
      BY <1>9
    <2> HIDE DEF D, j
    <2>4. Join(Append(D, e)) = Cat(Cat(Join(D), slash), e)
      BY <1>7, <2>1
    <2>5. Join(Append(segs, seg)) = Cat(Cat(j, slash), seg)
      BY <1>7 DEF j
    <2>6. PercentDecode(Cat(Cat(j, slash), seg)) = Cat(PercentDecode(Cat(j, slash)), e)
      BY <1>3, <1>5, <1>6, <2>1
    <2>7. PercentDecode(Cat(j, slash)) = Cat(Join(D), slash)
      BY <1>3, <1>4, <1>5, <2>1, <2>3
    <2> QED
      BY <2>2, <2>4, <2>5, <2>6, <2>7
  <1> HIDE DEF P
  <1>10. <<>> \in T /\ \A segs \in Seq(Y), seg \in Y : segs \in T => Append(segs, seg) \in T
    BY <1>8, <1>9, AppendProperties, EmptySeq
  <1> HIDE DEF T
  <1>11. Seq(Y) \subseteq T
    BY <1>10, Cut!Appending
  <1> QED
    BY <1>11 DEF P, T, Y

LEMMA ResolveDecode ==
  ASSUME NEW X, Alphabet \subseteq X, NEW s \in Seq(Plain(X))
  PROVE  Resolve(PercentDecode(s)) = PercentDecode(Resolve(s))
  <1> DEFINE C     == Plain(X)
             Y     == Seq(C)
             L     == Split(s)
             M     == Split(PercentDecode(s))
             kept  == Kept(L)
             dkept == Kept(M)
             dots  == {<<>>, Dot, DotDot}
             slash == <<"/">>
             end   == IF Last(L) \in dots THEN slash ELSE <<>>
             dend  == IF Last(M) \in dots THEN slash ELSE <<>>
  <1>1. L \in Seq(Y) /\ L = Append(Front(L), Last(L)) /\ Front(L) \in Seq(Y) /\ Last(L) \in Y
    BY LastSegment
  <1>2. M = DecodeSegments(L)
    BY SplitDecode
  <1>3. dkept = DecodeSegments(kept) /\ kept \in Seq(Y)
    BY <1>1, <1>2, KeptDecode, KeptType
  <1>4. Last(M) = PercentDecode(Last(L))
    <2> DEFINE F == DecodeSegments(Front(L))
               e == PercentDecode(Last(L))
    <2>1. F \in Seq(Y) /\ e \in Y
      BY <1>1, SegmentsType, DecodeType
    <2>2. M = Append(F, e)
      <3> HIDE DEF L, Y, M
      <3>1. DecodeSegments(Append(Front(L), Last(L))) = Append(F, e)
        BY <1>1, SegmentsAppend
      <3> QED
        BY <1>1, <1>2, <3>1
    <2> HIDE DEF F, e, Y, M
    <2>3. Last(M) = e
      BY <2>1, <2>2, FrontLast
    <2> QED
      BY <2>3 DEF e
  <1>5. dend = end
    <2>1. Last(M) \in dots <=> Last(L) \in dots
      BY <1>1, <1>4, DotDecode
    <2> QED
      BY <2>1
  <1>6. dkept = <<>> <=> kept = <<>>
    <2>1. kept = <<>> => dkept = <<>>
      BY <1>3, SegmentsNil
    <2>2. ASSUME kept # <<>> PROVE dkept # <<>>
      <3> HIDE DEF kept, dkept, Y
      <3>1. PICK first \in Seq(Y), last \in Y : kept = Append(first, last)
        BY <1>3, <2>2, SequenceEmptyOrAppend
      <3>2. dkept = Append(DecodeSegments(first), PercentDecode(last))
        BY <1>3, <3>1, SegmentsAppend
      <3>3. DecodeSegments(first) \in Seq(Y) /\ PercentDecode(last) \in Y
        BY SegmentsType, DecodeType DEF Y
      <3> QED
        BY <3>2, <3>3, AppendProperties
    <2> QED
      BY <2>1, <2>2
  <1>7. end \in Y /\ PercentDecode(end) = end
    <2>1. "/" \in C
      BY DEF Plain, Alphabet
    <2> HIDE DEF C
    <2>2. slash \in Y /\ <<>> \in Y
      BY <2>1
    <2> QED
      BY <2>2, SlashDecode, DecodeNil
  <1>8. Join(dkept) = PercentDecode(Join(kept)) /\ Join(kept) \in Y
    <2>1. "/" \in C
      BY DEF Plain, Alphabet
    <2> QED
      BY <1>3, <2>1, JoinDecode, JoinType
  <1>9. PercentDecode(Cat(Join(kept), end)) = Cat(Join(dkept), end)
    <2> HIDE DEF end, kept, dkept, C
    <2> QED
      BY <1>7, <1>8, DecodeConcat
  <1>10. Resolve(s) = IF kept = <<>> THEN slash ELSE Cat(Join(kept), end)
    BY ResolveIs DEF Cat
  <1>11. Resolve(PercentDecode(s)) = IF dkept = <<>> THEN slash ELSE Cat(Join(dkept), dend)
    BY ResolveIs DEF Cat
  <1> HIDE DEF end, dend, kept, dkept
  <1> QED
    BY <1>5, <1>6, <1>9, <1>10, <1>11, SlashDecode

\* Facts about sequences the proofs below cite with nothing else in sight.
LEMMA ElementIn ==
  ASSUME NEW S, NEW s \in Seq(S) PROVE \A i \in DOMAIN s : s[i] \in S
  OBVIOUS

LEMMA FunctionIsSeq ==
  ASSUME NEW S, NEW k \in Nat, NEW f \in [1..k -> S] PROVE f \in Seq(S) /\ Len(f) = k
  BY SeqDef, LenProperties

LEMMA TailIs ==
  ASSUME NEW S, NEW s \in Seq(S), s # <<>>
  PROVE  /\ Len(s) - 1 \in Nat /\ Len(Tail(s)) = Len(s) - 1
         /\ \A i \in 1..(Len(s) - 1) : Tail(s)[i] = s[i + 1] /\ s[i + 1] \in S
  <1>1. Len(s) \in Nat /\ Len(s) # 0 /\ Len(Tail(s)) = Len(s) - 1
    BY EmptySeq, LenProperties, HeadTailProperties
  <1>2. \A i \in 1..(Len(s) - 1) : Tail(s)[i] = s[i + 1]
    BY <1>1, HeadTailProperties
  <1>3. \A i \in 1..(Len(s) - 1) : i + 1 \in 1..Len(s)
    BY <1>1
  <1>4. \A i \in 1..Len(s) : s[i] \in S
    BY ElementOfSeq
  <1> QED
    BY <1>1, <1>2, <1>3, <1>4

LEMMA AtMostOne ==
  ASSUME NEW S, NEW n, S = {} \/ S = {n} PROVE Cardinality(S) <= 1
  <1>1. Cardinality({}) = 0 /\ Cardinality({n}) = 1
    BY FS_EmptySet, FS_Singleton
  <1>2. Cardinality(S) \in {0, 1}
    BY <1>1
  <1> QED
    BY <1>2

\* Without a ";" a path has no parameters to drop.
LEMMA NoParameters ==
  ASSUME NEW X, "/" \in X, ";" \notin X, NEW p \in Seq(X), Rooted(p)
  PROVE  Unparametered(p) = p
  <1> DEFINE Y    == Seq(X)
             segs == Split(p)
             R    == Split(Tail(p))
             n    == Len(segs) - 1
             rest == [i \in 1..n |-> UpTo(segs[i + 1], ";")]
  <1>1. segs \in Seq(Y) /\ segs # <<>>
    BY LastSegment
  <1>2. Tail(segs) = R
    BY SegmentsRooted DEF Segments
  <1>3. Tail(p) \in Seq(X) /\ p = Cat(<<"/">>, Tail(p))
    BY Leading
  <1>4. R \in Seq(Y) /\ Join(R) = p
    BY <1>3, LastSegment, JoinSplit DEF Cat
  <1>5. \A seg \in Y : UpTo(seg, ";") = seg
    <2> SUFFICES ASSUME NEW seg \in Y PROVE Before(seg, ";") = 0
      BY DEF UpTo
    <2>1. \A i \in DOMAIN seg : seg[i] \in X
      BY ElementIn
    <2>2. ";" \notin ToSet(seg)
      BY <2>1 DEF ToSet
    <2> QED
      BY <2>2, BeforeIs
  <1> HIDE DEF Y, segs, R, rest
  <1>6. n \in Nat /\ Len(Tail(segs)) = n /\ \A i \in 1..n : Tail(segs)[i] = segs[i + 1] /\ segs[i + 1] \in Y
    BY <1>1, TailIs
  <1> HIDE DEF n
  <1>7. \A i \in 1..n : rest[i] = R[i] /\ R[i] \in Y
    BY <1>2, <1>5, <1>6 DEF rest
  <1>8. rest \in [1..n -> Y]
    BY <1>7 DEF rest
  <1>9. Len(R) = n
    BY <1>2, <1>6
  <1>10. rest \in Seq(Y) /\ Len(rest) = n
    <2>1. n \in Nat
      BY <1>6
    <2> QED
      BY <1>8, <2>1, FunctionIsSeq
  <1>11. rest = R
    BY <1>4, <1>7, <1>9, <1>10, SeqEqual
  <1> QED
    BY <1>4, <1>11 DEF Unparametered, rest, segs, n

LEMMA NoBackslash ==
  ASSUME NEW X, "\\" \notin X, NEW s \in Seq(X) PROVE Slashes(s) = s
  BY DEF Slashes

LEMMA WithoutSome ==
  ASSUME NEW X, NEW B, NEW s \in Seq(X), ToSet(s) \cap B = {} PROVE s \in Seq(X \ B)
  <1>1. Len(s) \in Nat /\ s = [i \in 1..Len(s) |-> s[i]]
    OBVIOUS
  <1>2. \A i \in 1..Len(s) : s[i] \in X \ B
    BY DEF ToSet
  <1> QED
    BY <1>1, <1>2

\* ADR-0037's three readings are one of a path that has no parameter, no backslash
\* and no escape of a slash, a dot or a percent sign: of any length, over any
\* other characters.
THEOREM PlainPathsReadOneWay ==
  ASSUME NEW X, Alphabet \subseteq X, NEW u, UpTo(u, "?") \in Seq(Plain(X))
  PROVE  \A p \in Readings(u) : p = Normalise(u)
  <1> DEFINE p == UpTo(u, "?")
             d == PercentDecode(p)
  <1> SUFFICES ASSUME Normalise(u) # Refused PROVE \A q \in Readings(u) : q = Normalise(u)
    BY DEF Readings
  <1>1. p # <<>> /\ p[1] = "/"
    BY DEF Normalise
  <1>2. Normalise(u) = LowerCase(Resolve(Slashes(d)))
    BY DEF Normalise
  <1>3. Readings(u) = {Normalise(u)} \cup
          {LowerCase(PercentDecode(Resolve(q))) : q \in {p, Unparametered(p)}}
    BY DEF Readings
  <1>4. "/" \in Plain(X) /\ ";" \notin Plain(X) /\ "\\" \notin Plain(X)
    BY DEF Plain, Alphabet
  <1>5. d \in Seq(Plain(X))
    BY DecodeType
  <1>6. PercentDecode(Resolve(p)) = Resolve(d)
    BY ResolveDecode
  <1> HIDE DEF p, d
  <1>7. Slashes(d) = d
    BY <1>4, <1>5, NoBackslash
  <1>8. Unparametered(p) = p
    BY <1>1, <1>4, NoParameters DEF Rooted, p
  <1> QED
    BY <1>2, <1>3, <1>6, <1>7, <1>8

\* So however many segments a request path has, resolving the dot segments before
\* or after the escapes gives the rules one and the same path to match.
THEOREM AlwaysOneReading == Spec => []OneReading
  <1>1. ASSUME UriOK PROVE OneReading
    <2> SUFFICES ASSUME ToSet(Path) \cap {";", "\\", "%2f", "%5c", "%2e", "%25"} = {}
                 PROVE  Cardinality(Readings(uri)) <= 1
      BY DEF OneReading
    <2>1. Path \in Seq(Char) /\ Alphabet \subseteq Char
      BY <1>1, Chars, UpToType DEF UriOK, Path
    <2>2. Path \in Seq(Plain(Char))
      BY <2>1, WithoutSome DEF Plain
    <2>3. \A p \in Readings(uri) : p = Normalise(uri)
      BY <2>1, <2>2, PlainPathsReadOneWay DEF Path
    <2>4. Readings(uri) = {} \/ Readings(uri) = {Normalise(uri)}
      BY <2>3
    <2> QED
      BY <2>4, AtMostOne
  <1> QED
    BY <1>1, UriAlwaysOK, PTL

-----------------------------------------------------------------------------
(***************************************************************************)
(* What is stored of a pattern, and of a group.                            *)
(***************************************************************************)
\* The characters a pattern that normalise leaves alone can have.
Settled(X) == X \ ({"\\", "A", "?", "%", "#", "%zz"} \cup DOMAIN Escape)

LEMMA SettledKinds ==
  ASSUME NEW X, Alphabet \subseteq X
  PROVE  /\ Settled(X) \subseteq X /\ "/" \in Settled(X)
         /\ Settled(X) \cap DOMAIN Escape = {}
         /\ {"\\", "A", "?", "%", "#", "%zz"} \cap Settled(X) = {}
  BY DEF Settled, Escape, Alphabet

LEMMA NoEscape ==
  ASSUME NEW X, X \cap DOMAIN Escape = {}, NEW s \in Seq(X) PROVE PercentDecode(s) = s
  <1>1. \A i \in DOMAIN s : s[i] \in X
    BY ElementIn
  <1>2. \A i \in DOMAIN s : s[i] \notin DOMAIN Escape
    BY <1>1
  <1>3. s = [i \in DOMAIN s |-> s[i]]
    OBVIOUS
  <1> QED
    BY <1>2, <1>3 DEF PercentDecode

LEMMA NoCapital ==
  ASSUME NEW X, "A" \notin X, NEW s \in Seq(X) PROVE LowerCase(s) = s
  <1>1. \A i \in DOMAIN s : s[i] # "A"
    BY ElementIn
  <1>2. s = [i \in DOMAIN s |-> s[i]]
    OBVIOUS
  <1> QED
    BY <1>1, <1>2 DEF LowerCase

\* A text of whose characters each is replaced.
LEMMA Replacing ==
  ASSUME NEW X, NEW Y, NEW s \in Seq(X), NEW r, r = [i \in DOMAIN s |-> r[i]],
         \A i \in DOMAIN s : r[i] \in Y
  PROVE  r \in Seq(Y)
  <1>1. DOMAIN s = 1..Len(s) /\ Len(s) \in Nat
    OBVIOUS
  <1>2. r \in [1..Len(s) -> Y]
    BY <1>1
  <1> QED
    BY <1>1, <1>2, FunctionIsSeq

LEMMA LowerCaseType ==
  ASSUME NEW X, "a" \in X, NEW s \in Seq(X) PROVE LowerCase(s) \in Seq(X \ {"A"})
  <1> DEFINE r == LowerCase(s)
  <1>1. r = [i \in DOMAIN s |-> IF s[i] = "A" THEN "a" ELSE s[i]]
    BY DEF LowerCase
  <1>2. \A i \in DOMAIN s : s[i] \in X
    BY ElementIn
  <1>3. \A i \in DOMAIN s : r[i] \in X \ {"A"}
    BY <1>1, <1>2
  <1>4. r = [i \in DOMAIN s |-> r[i]]
    BY <1>1
  <1> HIDE DEF r
  <1>5. r \in Seq(X \ {"A"})
    BY <1>3, <1>4, Replacing
  <1> QED
    BY <1>5 DEF r

LEMMA SlashesType ==
  ASSUME NEW X, "/" \in X, NEW s \in Seq(X) PROVE Slashes(s) \in Seq(X \ {"\\"})
  <1> DEFINE r == Slashes(s)
  <1>1. r = [i \in DOMAIN s |-> IF s[i] = "\\" THEN "/" ELSE s[i]]
    BY DEF Slashes
  <1>2. \A i \in DOMAIN s : s[i] \in X
    BY ElementIn
  <1>3. \A i \in DOMAIN s : r[i] \in X \ {"\\"}
    BY <1>1, <1>2
  <1>4. r = [i \in DOMAIN s |-> r[i]]
    BY <1>1
  <1> HIDE DEF r
  <1>5. r \in Seq(X \ {"\\"})
    BY <1>3, <1>4, Replacing
  <1> QED
    BY <1>5 DEF r

LEMMA UpToNone ==
  ASSUME NEW X, NEW s \in Seq(X), NEW c PROVE c \notin ToSet(UpTo(s, c))
  <1> DEFINE I == {i \in 1..Len(s) : s[i] = c}
             k == Before(s, c)
             t == SubSeq(s, 1, k - 1)
  <1>1. k = IF I # {} THEN Min(I) ELSE 0
    BY DEF Before, SelectInSeq
  <1>2. CASE I = {}
    <2>1. c \notin ToSet(s)
      BY <1>2 DEF ToSet
    <2> QED
      BY <1>1, <1>2, <2>1 DEF UpTo
  <1>3. CASE I # {}
    <2>1. I \subseteq Nat
      OBVIOUS
    <2>2. k \in I /\ \A m \in I : k <= m
      <3> HIDE DEF I
      <3> QED
        BY <1>1, <1>3, <2>1, MinIs
    <2>3. k \in 1..Len(s) /\ \A i \in 1..(k - 1) : s[i] # c
      BY <2>2
    <2>4. DOMAIN t = 1..(k - 1) /\ \A i \in 1..(k - 1) : t[i] = s[i]
      BY <2>3
    <2>5. UpTo(s, c) = t
      BY <2>3 DEF UpTo
    <2> HIDE DEF t, k
    <2>6. \A i \in DOMAIN t : t[i] # c
      BY <2>3, <2>4
    <2> QED
      BY <2>5, <2>6 DEF ToSet
  <1> QED
    BY <1>2, <1>3

LEMMA DecodedOut ==
  ASSUME NEW X, Alphabet \subseteq X, NEW c \in X \ {"#", "%zz"}
  PROVE  Decoded(c) \in X \ ({"#", "%zz"} \cup DOMAIN Escape)
  <1>1. DOMAIN Escape = {"%2f", "%5c", "%2e", "%41", "%3f", "%25"}
    BY DEF Escape
  <1>2. CASE c \notin DOMAIN Escape
    BY <1>2 DEF Decoded
  <1>3. CASE c \in DOMAIN Escape
    <2>1. Escape[c] \in {"/", "\\", ".", "A", "?", "%"}
      BY <1>3 DEF Escape
    <2>2. {"/", "\\", ".", "A", "?", "%"} \subseteq X \ ({"#", "%zz"} \cup DOMAIN Escape)
      BY <1>1 DEF Alphabet
    <2> QED
      BY <1>3, <2>1, <2>2 DEF Decoded
  <1> QED
    BY <1>2, <1>3

\* A path that normalise leaves alone is decoded, has one case and no query, and
\* is resolved.
LEMMA NormalFixed ==
  ASSUME NEW X, Alphabet \subseteq X, NEW u \in Seq(X), u # Refused, Normalise(u) = u
  PROVE  u \in Seq(Settled(X)) /\ Resolve(u) = u /\ Rooted(u)
  <1> DEFINE p == UpTo(u, "?")
             d == PercentDecode(p)
             V == X \ ({"#", "%zz"} \cup DOMAIN Escape)
             Z == ((V \ {"%"}) \ {"\\"}) \ {"A"}
  <1>1. /\ p[1] = "/" /\ {"#", "%zz"} \cap ToSet(p) = {} /\ "%" \notin ToSet(d)
        /\ u = LowerCase(Resolve(Slashes(d)))
    BY DEF Normalise
  <1>2. Z \ {"?"} = Settled(X) /\ V \subseteq X
    BY DEF Settled
  <1>3. {"/", "a"} \subseteq Z \ {"?"} /\ Z \cap DOMAIN Escape = {} /\ "A" \notin Z /\ "\\" \notin Z
    BY DEF Alphabet, Escape
  <1>4. p \in Seq(X \ {"#", "%zz"})
    BY <1>1, UpToType, WithoutSome
  <1>5. d \in Seq(V \ {"%"})
    <2> DEFINE W == X \ {"#", "%zz"}
               D == {Decoded(c) : c \in W}
    <2>1. d \in Seq(D)
      BY <1>4, DecodePointwise
    <2>2. D \subseteq V
      BY DecodedOut
    <2> HIDE DEF D, V, d
    <2>3. d \in Seq(V)
      BY <2>1, <2>2, SeqMonotonic
    <2>4. ToSet(d) \cap {"%"} = {}
      BY <1>1 DEF d
    <2> QED
      BY <2>3, <2>4, WithoutSome
  <1> HIDE DEF d, p, V
  <1>6. u \in Seq(Z)
    <2>1. "/" \in V \ {"%"} /\ "/" \in (V \ {"%"}) \ {"\\"} /\ "a" \in (V \ {"%"}) \ {"\\"}
      BY <1>3
    <2>2. Slashes(d) \in Seq((V \ {"%"}) \ {"\\"})
      BY <1>5, <2>1, SlashesType
    <2>3. Resolve(Slashes(d)) \in Seq((V \ {"%"}) \ {"\\"})
      BY <2>1, <2>2, ResolveType
    <2> QED
      BY <1>1, <2>1, <2>3, LowerCaseType
  <1> HIDE DEF Z
  <1>7. p \in Seq(Z)
    BY <1>6, UpToType DEF p
  <1>8. d = p
    BY <1>3, <1>7, NoEscape DEF d
  <1>9. p \in Seq(Z \ {"?"})
    <2>1. ToSet(p) \cap {"?"} = {}
      BY <1>6, UpToNone DEF p
    <2> QED
      BY <1>7, <2>1, WithoutSome
  <1>10. u = Resolve(p) /\ u \in Seq(Z \ {"?"}) /\ Rooted(u)
    <2>1. Slashes(d) = p
      BY <1>3, <1>7, <1>8, NoBackslash
    <2>2. Resolve(p) \in Seq(Z \ {"?"}) /\ Rooted(Resolve(p))
      BY <1>3, <1>9, ResolveType
    <2>3. LowerCase(Resolve(p)) = Resolve(p)
      BY <1>3, <2>2, NoCapital
    <2> QED
      BY <1>1, <2>1, <2>2, <2>3
  <1>11. p = u
    <2>1. \A i \in DOMAIN u : u[i] # "?"
      BY <1>10, ElementIn
    <2>2. "?" \notin ToSet(u)
      BY <2>1 DEF ToSet
    <2>3. Before(u, "?") = 0
      BY <2>2, BeforeIs
    <2> QED
      BY <2>3 DEF UpTo, p
  <1> QED
    BY <1>2, <1>10, <1>11

\* And any path of such characters is read as it is resolved.
LEMMA SettledReads ==
  ASSUME NEW X, Alphabet \subseteq X, NEW w \in Seq(Settled(X)), Rooted(w)
  PROVE  /\ Normalise(w) = Resolve(w)
         /\ Resolve(w) \in Readings(w)
         /\ ";" \notin ToSet(w) => Readings(w) = {Resolve(w)}
  <1> DEFINE S == Settled(X)
             r == Resolve(w)
  <1>1. S \subseteq X /\ "/" \in S /\ S \cap DOMAIN Escape = {} /\ {"\\", "A", "?", "%", "#", "%zz"} \cap S = {}
    BY SettledKinds
  <1> HIDE DEF S, r
  <1>2. w \in Seq(S)
    BY DEF S
  <1>3. \A i \in DOMAIN w : w[i] \in S
    BY <1>2, ElementIn
  <1>4. ToSet(w) \subseteq S
    BY <1>3 DEF ToSet
  <1>5. UpTo(w, "?") = w
    <2>1. "?" \notin ToSet(w)
      BY <1>1, <1>4
    <2>2. Before(w, "?") = 0
      BY <1>2, <2>1, BeforeIs
    <2> QED
      BY <2>2 DEF UpTo
  <1>6. PercentDecode(w) = w /\ Slashes(w) = w
    BY <1>1, <1>2, NoEscape, NoBackslash
  <1>7. r \in Seq(S) /\ Rooted(r)
    BY <1>1, <1>2, ResolveType DEF r
  <1>8. LowerCase(r) = r /\ PercentDecode(r) = r
    BY <1>1, <1>7, NoCapital, NoEscape
  <1>9. w # <<>> /\ w[1] = "/" /\ r # <<>>
    BY <1>7 DEF Rooted
  <1>10. {"#", "%zz"} \cap ToSet(w) = {} /\ "%" \notin ToSet(w)
    BY <1>1, <1>4
  <1>11. Normalise(w) = r
    BY <1>5, <1>6, <1>8, <1>9, <1>10 DEF Normalise, r
  <1>12. r \in Readings(w)
    BY <1>9, <1>11, NormalisedIsAReading DEF Refused
  <1>13. ASSUME ";" \notin ToSet(w) PROVE Readings(w) = {r}
    <2>1. Unparametered(w) = w
      <3>1. ToSet(w) \cap {";"} = {}
        BY <1>13
      <3>2. w \in Seq(S \ {";"})
        BY <1>2, <3>1, WithoutSome
      <3> QED
        BY <1>1, <3>2, NoParameters
    <2> QED
      BY <1>5, <1>8, <1>9, <1>11, <2>1 DEF Readings, Refused, r
  <1> QED
    BY <1>11, <1>12, <1>13 DEF r

\* A resolved path that ends with a slash stays resolved with a letter after it.
LEMMA ResolveBelow ==
  ASSUME NEW X, "/" \in X, NEW v \in Seq(X), NEW c \in X \ {"/", "."},
         Resolve(Append(v, "/")) = Append(v, "/")
  PROVE  Resolve(Append(Append(v, "/"), c)) = Append(Append(v, "/"), c)
  <1> DEFINE Y == Seq(X)
             L == Split(v)
             K == Kept(L)
             u == Append(v, "/")
             w == Append(u, c)
             one == <<c>>
             slash == <<"/">>
  <1>1. L \in Seq(Y)
    BY LastSegment
  <1>2. u \in Y
    BY AppendProperties
  <1>3. <<>> \in Y /\ one \in Y /\ slash \in Y /\ Append(<<>>, c) = one
    OBVIOUS
  <1>4. one \notin {<<>>, Dot, DotDot}
    BY DEF Dot, DotDot
  <1>5. Split(u) = Append(L, <<>>)
    BY SplitSlash
  <1>6. Split(w) = Append(Front(Split(u)), Append(Last(Split(u)), c))
    BY <1>2, SplitOther
  <1>7. <<>> \notin {Dot, DotDot}
    BY DEF Dot, DotDot
  <1> HIDE DEF Y, L, u, w, one, slash
  <1>8. Front(Split(u)) = L /\ Last(Split(u)) = <<>>
    BY <1>1, <1>3, <1>5, FrontLast
  <1>9. Split(w) = Append(L, one)
    BY <1>3, <1>6, <1>8
  <1>10. Last(Split(w)) = one
    BY <1>1, <1>3, <1>9, FrontLast
  <1>11. Kept(Split(u)) = K
    <2>1. Kept(Append(L, <<>>)) = KeepOp({<<>>, Dot}, K, <<>>)
      BY <1>1, <1>3, KeptStep
    <2> QED
      BY <1>5, <2>1 DEF KeepOp
  <1>12. Kept(Split(w)) = Append(K, one)
    <2>1. Kept(Append(L, one)) = KeepOp({<<>>, Dot}, K, one)
      BY <1>1, <1>3, KeptStep
    <2> QED
      BY <1>4, <1>9, <2>1 DEF KeepOp, DotDot
  <1>13. K \in Seq(Y)
    BY <1>1, KeptType
  <1> HIDE DEF K
  <1>14. Append(K, one) # <<>> /\ Join(Append(K, one)) = Cat(Cat(Join(K), slash), one)
    <2>1. Append(K, one) # <<>>
      BY <1>3, <1>13, AppendProperties
    <2>2. Join(Append(K, one)) = Join(K) \o <<"/">> \o one
      BY <1>3, <1>13, JoinStep
    <2> QED
      BY <2>1, <2>2 DEF Cat, slash
  <1>15. Join(K) \in Y
    BY <1>13, JoinType DEF Y
  <1>16. Resolve(u) = IF K = <<>> THEN slash ELSE Cat(Join(K), slash)
    BY <1>8, <1>11, ResolveIs DEF Cat, slash
  <1>17. Resolve(w) = Cat(Cat(Cat(Join(K), slash), one), <<>>)
    BY <1>4, <1>10, <1>12, <1>14, ResolveIs DEF Cat
  <1>18. Cat(Join(K), slash) = u
    <2>1. CASE K = <<>>
      <3>1. Join(K) = <<>>
        BY <2>1, JoinStep
      <3>2. Cat(<<>>, slash) = slash
        BY <1>3, ConcatEmptySeq DEF Cat, Y
      <3> QED
        BY <1>16, <2>1, <3>1, <3>2 DEF u
    <2>2. CASE K # <<>>
      BY <1>16, <2>2 DEF u
    <2> QED
      BY <2>1, <2>2
  <1>19. Cat(u, one) = w
    BY <1>2, AppendIsConcat DEF Cat, one, w, Y
  <1>20. Cat(w, <<>>) = w
    <2>1. w \in Y
      BY <1>2, AppendProperties DEF w, Y
    <2> QED
      BY <2>1, ConcatEmptySeq DEF Cat, Y
  <1> QED
    BY <1>17, <1>18, <1>19, <1>20 DEF u, w

\* What TrimEnd takes away, and where it stops.
LEMMA TrimEndStops ==
  ASSUME NEW X, NEW s \in Seq(X), NEW c
  PROVE  \E k \in 0..Len(s) : /\ TrimEnd(s, c) = SubSeq(s, 1, k)
                              /\ \A i \in (k + 1)..Len(s) : s[i] = c
                              /\ k # 0 => s[k] # c
  <1> DEFINE I == {i \in 1..Len(s) : s[i] # c}
             k == IF I # {} THEN Max(I) ELSE 0
  <1>1. TrimEnd(s, c) = SubSeq(s, 1, k)
    BY DEF TrimEnd, SelectLastInSeq
  <1>2. Len(s) \in Nat /\ I \subseteq 1..Len(s)
    OBVIOUS
  <1>3. I # {} => k \in I /\ \A m \in I : k >= m
    <2> HIDE DEF I
    <2> QED
      BY <1>2, MaxIs
  <1>4. I = {} => k = 0
    OBVIOUS
  <1> HIDE DEF k
  <1>5. k \in 0..Len(s)
    BY <1>2, <1>3, <1>4
  <1>6. \A i \in (k + 1)..Len(s) : s[i] = c
    <2> SUFFICES ASSUME NEW i \in (k + 1)..Len(s), s[i] # c PROVE FALSE
      OBVIOUS
    <2>1. i \in I
      BY <1>5
    <2> QED
      BY <1>3, <1>5, <2>1
  <1>7. k # 0 => s[k] # c
    BY <1>3, <1>4
  <1> QED
    BY <1>1, <1>5, <1>6, <1>7

LEMMA TrimStar ==
  ASSUME NEW X, NEW u \in Seq(X), NEW c \in X, u # <<>>, u[Len(u)] # c
  PROVE  TrimEnd(Append(u, c), c) = u
  <1> DEFINE s == Append(u, c)
             n == Len(u)
  <1>1. s \in Seq(X) /\ n \in Nat /\ n # 0 /\ Len(s) = n + 1 /\ s[n + 1] = c /\ \A i \in 1..n : s[i] = u[i]
    BY AppendProperties, EmptySeq
  <1>2. SubSeq(s, 1, n) = u
    OBVIOUS
  <1>3. u[n] # c
    OBVIOUS
  <1> HIDE DEF s, n
  <1>4. PICK k \in 0..Len(s) : /\ TrimEnd(s, c) = SubSeq(s, 1, k)
                               /\ \A i \in (k + 1)..Len(s) : s[i] = c
                               /\ k # 0 => s[k] # c
    <2>1. s \in Seq(X)
      BY <1>1
    <2> QED
      BY <2>1, TrimEndStops
  <1>5. k = n
    BY <1>1, <1>3, <1>4
  <1> QED
    BY <1>2, <1>4, <1>5 DEF s

\* The beginning of a text before its end is one of a longer text too.
LEMMA PrefixBelow ==
  ASSUME NEW X, NEW s \in Seq(X), NEW c \in X, NEW k \in 0..Len(s), k # Len(s)
  PROVE  /\ Len(SubSeq(s, 1, k)) = k /\ IsStrictPrefix(SubSeq(s, 1, k), Append(s, c))
         /\ Append(s, c)[k + 1] = s[k + 1]
  <1> DEFINE b == SubSeq(s, 1, k)
             w == Append(s, c)
             n == Len(s)
  <1>1. n \in Nat /\ k \in Nat /\ k < n
    BY LenProperties
  <1>2. w \in Seq(X) /\ Len(w) = n + 1 /\ \A i \in 1..n : w[i] = s[i]
    BY AppendProperties
  <1>3. Len(b) = k /\ b \in Seq(X) /\ \A i \in 1..k : b[i] = s[i]
    OBVIOUS
  <1> HIDE DEF w, b, n
  <1>4. SubSeq(b, 1, k) \in Seq(X) /\ Len(SubSeq(b, 1, k)) = k /\ \A i \in 1..k : SubSeq(b, 1, k)[i] = b[i]
    BY <1>1, <1>3
  <1>5. SubSeq(w, 1, k) \in Seq(X) /\ Len(SubSeq(w, 1, k)) = k /\ \A i \in 1..k : SubSeq(w, 1, k)[i] = w[i]
    BY <1>1, <1>2
  <1> DEFINE p == SubSeq(b, 1, k)
             q == SubSeq(w, 1, k)
  <1> HIDE DEF p, q
  <1>6. p = q
    <2>1. p \in Seq(X) /\ Len(p) = k /\ \A i \in 1..k : p[i] = s[i]
      BY <1>3, <1>4 DEF p
    <2>2. q \in Seq(X) /\ Len(q) = k /\ \A i \in 1..k : q[i] = s[i]
      BY <1>1, <1>2, <1>5 DEF q
    <2> QED
      BY <2>1, <2>2, SeqEqual
  <1>7. b # w /\ k <= Len(w)
    BY <1>1, <1>2, <1>3
  <1>8. IsStrictPrefix(b, w)
    BY <1>3, <1>6, <1>7 DEF IsStrictPrefix, IsPrefix, p, q
  <1>9. w[k + 1] = s[k + 1]
    BY <1>1, <1>2
  <1> QED
    BY <1>3, <1>8, <1>9 DEF b, w

LEMMA MatchesBelow ==
  ASSUME NEW X, Alphabet \subseteq X, "*" \in X, NEW u \in Seq(X), NEW c \in X,
         Rooted(u), u[Len(u)] = "/", "A" \notin ToSet(u), Resolve(u) = u
  PROVE  Matches(Append(u, "*"), Append(u, c))
  <1> DEFINE n    == Len(u)
             b    == Base(Append(u, "*"))
             w    == Append(u, c)
  <1>1. n \in Nat /\ n # 0 /\ u # <<>> /\ u[n] = "/"
    BY EmptySeq DEF Rooted
  <1>2. u[Len(u)] # "*"
    OBVIOUS
  <1>3. TrimEnd(Append(u, "*"), "*") = u
    BY <1>1, <1>2, TrimStar
  <1>4. LowerCase(u) = u
    <2>1. ToSet(u) \cap {"A"} = {}
      OBVIOUS
    <2>2. u \in Seq(X \ {"A"})
      BY <2>1, WithoutSome
    <2> QED
      BY <2>2, NoCapital
  <1>5. b = TrimEnd(u, "/")
    BY <1>3, <1>4 DEF Base
  <1>6. Len(w) = n + 1 /\ \A i \in 1..n : w[i] = u[i]
    BY AppendProperties
  <1> HIDE DEF n, b, w
  <1>7. PICK k \in 0..Len(u) : /\ TrimEnd(u, "/") = SubSeq(u, 1, k)
                               /\ \A i \in (k + 1)..Len(u) : u[i] = "/"
                               /\ k # 0 => u[k] # "/"
    BY TrimEndStops
  <1>8. k < n /\ k \in Nat
    BY <1>1, <1>7 DEF n
  <1>9. u[k + 1] = "/"
    BY <1>7, <1>8 DEF n
  <1>10. CASE k = 0
    <2>1. b = <<>>
      BY <1>5, <1>7, <1>10
    <2> QED
      BY <2>1 DEF Matches, b
  <1>11. CASE k # 0
    <2>1. b = SubSeq(u, 1, k)
      BY <1>5, <1>7
    <2>2. k \in 0..Len(u) /\ k # Len(u)
      BY <1>7, <1>8 DEF n
    <2>3. Len(b) = k /\ IsStrictPrefix(b, w) /\ w[k + 1] = u[k + 1]
      BY <2>1, <2>2, PrefixBelow DEF w
    <2> QED
      BY <1>9, <2>3 DEF Matches, b, w
  <1> QED
    BY <1>10, <1>11

LEMMA SubSeqFirst ==
  ASSUME NEW X, NEW s \in Seq(X), NEW m \in 1..Len(s), NEW n \in m..Len(s)
  PROVE  SubSeq(s, m, n)[1] = s[m]
  <1>1. Len(s) \in Nat /\ m \in Nat /\ n \in Nat /\ 1 \in 1..(n - m + 1) /\ m + 1 - 1 = m
    BY LenProperties
  <1>2. SubSeq(s, m, n) = [i \in 1..(n - m + 1) |-> s[m + i - 1]]
    BY <1>1
  <1> QED
    BY <1>1, <1>2

\* What is stored ends with "/*", and is a resolved path before the star.
LEMMA StoredPath ==
  ASSUME NEW X, Alphabet \subseteq X, "*" \in X, NEW u \in Seq(X), ValidPattern(Append(u, "*"))
  PROVE  /\ u \in Seq(Settled(X)) /\ Resolve(u) = u /\ Rooted(u)
         /\ u[Len(u)] = "/"
  <1> DEFINE raw == Append(u, "*")
             n   == Len(u)
  <1>1. raw # <<>> /\ Len(raw) = n + 1 /\ n \in Nat /\ \A i \in 1..n : raw[i] = u[i]
    BY AppendProperties
  <1>2. Front(raw) = u
    BY FrontLast
  <1> HIDE DEF raw
  <1>3. /\ Len(raw) >= 2 /\ SubSeq(raw, Len(raw) - 1, Len(raw)) = <<"/", "*">>
        /\ Normalise(u) = u
    BY <1>1, <1>2 DEF ValidPattern, raw
  <1>4. n >= 1 /\ n \in 1..n
    BY <1>1, <1>3
  <1>5. u[n] = "/"
    <2>1. SubSeq(raw, n, n + 1) = <<"/", "*">>
      BY <1>1, <1>3
    <2>2. raw \in Seq(X)
      BY AppendProperties DEF raw
    <2>3. n \in 1..Len(raw) /\ n + 1 \in n..Len(raw)
      BY <1>1, <1>4
    <2>4. SubSeq(raw, n, n + 1)[1] = raw[n]
      BY <2>2, <2>3, SubSeqFirst
    <2>5. <<"/", "*">>[1] = "/"
      OBVIOUS
    <2>6. raw[n] = "/"
      BY <2>1, <2>4, <2>5, Zenon
    <2> QED
      BY <1>1, <1>4, <2>6
  <1>6. u # Refused
    BY <1>4 DEF Refused
  <1> QED
    BY <1>3, <1>5, <1>6, NormalFixed

LEMMA StoredMatches ==
  ASSUME NEW X, Alphabet \subseteq X, {"*", "b"} \subseteq X, NEW u \in Seq(X),
         ValidPattern(Append(u, "*"))
  PROVE  /\ Append(u, "b") \in Readings(Append(u, "b"))
         /\ ";" \notin ToSet(u) => Readings(Append(u, "b")) = {Append(u, "b")}
         /\ Matches(Append(u, "*"), Append(u, "b"))
  <1> DEFINE S == Settled(X)
             w == Append(u, "b")
  <1>1. u \in Seq(S) /\ Resolve(u) = u /\ Rooted(u) /\ u[Len(u)] = "/"
    BY StoredPath
  <1>2. "A" \notin S /\ "/" \in S
    BY SettledKinds
  <1>3. "b" \in S
    BY DEF Settled, Escape
  <1> HIDE DEF S, w
  <1>4. u # <<>> /\ u[1] = "/"
    BY <1>1 DEF Rooted
  <1>5. w \in Seq(S) /\ Rooted(w)
    <2>1. w \in Seq(S) /\ w # <<>> /\ \A i \in 1..Len(u) : w[i] = u[i]
      BY <1>1, <1>3, AppendProperties DEF w
    <2>2. 1 \in 1..Len(u)
      BY <1>1, <1>4, EmptySeq, LenProperties
    <2> QED
      BY <1>4, <2>1, <2>2 DEF Rooted
  <1>6. Resolve(w) = w
    <2>1. PICK v \in Seq(S), c \in S : u = Append(v, c)
      BY <1>1, <1>4, SequenceEmptyOrAppend
    <2>2. c = "/"
      BY <1>1, <2>1, AppendProperties
    <2>3. "b" \in S \ {"/", "."}
      BY <1>3
    <2> QED
      BY <1>1, <1>2, <2>1, <2>2, <2>3, ResolveBelow DEF w
  <1>7. w \in Readings(w) /\ (";" \notin ToSet(w) => Readings(w) = {w})
    BY <1>5, <1>6, SettledReads DEF S
  <1>8. ToSet(w) = ToSet(u) \cup {"b"}
    <2>1. /\ DOMAIN w = 1..(Len(u) + 1) /\ DOMAIN u = 1..Len(u) /\ Len(u) \in Nat
          /\ w[Len(u) + 1] = "b" /\ \A i \in 1..Len(u) : w[i] = u[i]
      BY AppendProperties, LenProperties DEF w
    <2>2. 1..(Len(u) + 1) = 1..Len(u) \cup {Len(u) + 1}
      BY <2>1
    <2> QED
      BY <2>1, <2>2 DEF ToSet
  <1>9. "A" \notin ToSet(u)
    <2>1. \A i \in DOMAIN u : u[i] \in S
      BY <1>1, ElementIn
    <2> QED
      BY <1>2, <2>1 DEF ToSet
  <1>10. Matches(Append(u, "*"), w)
    BY <1>1, <1>9, MatchesBelow DEF w
  <1> QED
    BY <1>7, <1>8, <1>10 DEF w

LEMMA StoredDecides ==
  ASSUME NEW X, Alphabet \subseteq X, {"*", "b"} \subseteq X, NEW u \in Seq(X),
         ValidPattern(Append(u, "*")), NEW t, NEW first
  PROVE  LET rule(effect) == [effect |-> effect, pattern |-> Append(u, "*"), expires |-> {}] IN
         /\ Decide(TRUE, <<first, rule("deny")>>, Append(u, "b"), t) = "explicit_deny"
         /\ ";" \notin ToSet(u) => Decide(TRUE, <<rule("allow")>>, Append(u, "b"), t) = "allow"
  <1> DEFINE w == Append(u, "b")
             rule(effect) == [effect |-> effect, pattern |-> Append(u, "*"), expires |-> {}]
             two == <<first, rule("deny")>>
             one == <<rule("allow")>>
  <1>1. w \in Readings(w) /\ (";" \notin ToSet(u) => Readings(w) = {w}) /\ Matches(Append(u, "*"), w)
    BY StoredMatches
  <1> HIDE DEF w
  <1>2. DecidePath(two, w, t) = "explicit_deny"
    <2>1. 2 \in DOMAIN two /\ two[2] = rule("deny")
      OBVIOUS
    <2>2. Live(two[2], t)
      BY <2>1 DEF Live
    <2>3. Hit(two, "deny", w, t)
      BY <1>1, <2>1, <2>2 DEF Hit
    <2> QED
      BY <2>3 DEF DecidePath
  <1>3. DecidePath(one, w, t) = "allow"
    <2>1. DOMAIN one = {1} /\ one[1] = rule("allow")
      OBVIOUS
    <2>2. Live(one[1], t) /\ one[1].effect = "allow" /\ one[1].pattern = Append(u, "*")
      BY <2>1 DEF Live
    <2>3. Hit(one, "allow", w, t) /\ ~Hit(one, "deny", w, t)
      BY <1>1, <2>1, <2>2 DEF Hit
    <2> QED
      BY <2>3 DEF DecidePath
  <1> HIDE DEF one, two
  <1>4. Decide(TRUE, two, w, t) = "explicit_deny"
    BY <1>1, <1>2 DEF Decide
  <1>5. ASSUME ";" \notin ToSet(u) PROVE Decide(TRUE, one, w, t) = "allow"
    <2> DEFINE verdicts == {DecidePath(one, path, t) : path \in Readings(w)}
    <2>1. Readings(w) = {w}
      BY <1>1, <1>5
    <2>2. verdicts = {"allow"}
      BY <1>3, <2>1
    <2>3. Decide(TRUE, one, w, t) =
            IF verdicts = {} THEN "malformed_uri"
            ELSE IF "explicit_deny" \in verdicts THEN "explicit_deny"
            ELSE IF verdicts = {"allow"} THEN "allow" ELSE "no_matching_grant"
      BY Zenon DEF Decide
    <2> HIDE DEF verdicts
    <2>4. verdicts # {} /\ "explicit_deny" \notin verdicts
      BY <2>2
    <2> QED
      BY <2>2, <2>3, <2>4, Zenon
  <1> QED
    BY <1>4, <1>5 DEF one, two, w

\* Where a text has something other than a character.
Span(s, c) == {i \in 1..Len(s) : s[i] # c}

LEMMA SpanIs ==
  ASSUME NEW X, NEW s \in Seq(X), NEW c, Span(s, c) # {}
  PROVE  LET j == Min(Span(s, c))
             k == Max(Span(s, c))
         IN j \in 1..Len(s) /\ k \in j..Len(s) /\ k # 0 /\ s[j] # c /\ s[k] # c
  <1> DEFINE I == Span(s, c)
             j == Min(I)
             k == Max(I)
  <1>1. Len(s) \in Nat /\ I \subseteq 1..Len(s) /\ I \subseteq Nat
    BY LenProperties DEF Span
  <1>2. \A i \in I : s[i] # c
    BY DEF Span
  <1> HIDE DEF I
  <1>3. I # {}
    BY DEF I
  <1>4. j \in I /\ k \in I /\ k >= j
    BY <1>1, <1>3, MinIs, MaxIs
  <1> HIDE DEF j, k
  <1>5. j \in 1..Len(s) /\ k \in j..Len(s) /\ k # 0
    BY <1>1, <1>4
  <1> QED
    BY <1>2, <1>4, <1>5 DEF j, k, I

LEMMA SpanAll ==
  ASSUME NEW X, NEW s \in Seq(X), NEW c, s # <<>>, s[1] # c, s[Len(s)] # c
  PROVE  Span(s, c) # {} /\ SubSeq(s, Min(Span(s, c)), Max(Span(s, c))) = s
  <1> DEFINE I == Span(s, c)
             n == Len(s)
  <1>1. n \in Nat /\ n # 0 /\ 1 \in 1..n /\ n \in 1..n
    BY LenProperties, EmptySeq
  <1>2. 1 \in I /\ n \in I /\ I \subseteq 1..n /\ I \subseteq Nat
    BY <1>1 DEF Span
  <1>3. SubSeq(s, 1, n) = s
    OBVIOUS
  <1> HIDE DEF I, n
  <1> DEFINE j == Min(I)
             k == Max(I)
  <1>4. j \in I /\ j <= 1 /\ k \in I /\ k >= n
    BY <1>1, <1>2, MinIs, MaxIs
  <1> HIDE DEF j, k
  <1>5. j \in 1..n /\ k \in 1..n
    BY <1>2, <1>4
  <1>6. j = 1 /\ k = n
    BY <1>1, <1>4, <1>5
  <1> QED
    BY <1>2, <1>3, <1>6 DEF I, j, k

\* A part of a text.
LEMMA PartIs ==
  ASSUME NEW X, NEW s \in Seq(X), NEW j \in 1..Len(s), NEW k \in j..Len(s)
  PROVE  /\ SubSeq(s, j, k) \in Seq(X) /\ SubSeq(s, j, k) # <<>>
         /\ SubSeq(s, j, k)[1] = s[j] /\ SubSeq(s, j, k)[Len(SubSeq(s, j, k))] = s[k]
  <1> DEFINE t == SubSeq(s, j, k)
             n == k - j + 1
  <1>1. j \in Nat /\ k \in Nat /\ n \in Nat /\ n >= 1 /\ 1 \in 1..n /\ n \in 1..n
        /\ j + 1 - 1 = j /\ j + n - 1 = k
    BY LenProperties
  <1>2. t \in Seq(X) /\ Len(t) = n /\ t = [i \in 1..n |-> s[j + i - 1]]
    BY <1>1, LenProperties
  <1> HIDE DEF t, n
  <1>3. t # <<>>
    BY <1>1, <1>2
  <1>4. t[1] = s[j] /\ t[n] = s[k]
    BY <1>1, <1>2
  <1> QED
    BY <1>2, <1>3, <1>4 DEF t

\* Trimming takes the blanks off both ends.
LEMMA TrimIs ==
  ASSUME NEW X, NEW s \in Seq(X)
  PROVE  Trim(s) = IF Span(s, " ") = {} THEN <<>>
                   ELSE SubSeq(s, Min(Span(s, " ")), Max(Span(s, " ")))
  <1> DEFINE I == Span(s, " ")
  <1>1. Trim(s) = IF (IF I # {} THEN Max(I) ELSE 0) = 0 THEN <<>>
                  ELSE SubSeq(s, IF I # {} THEN Min(I) ELSE 0, IF I # {} THEN Max(I) ELSE 0)
    BY Zenon DEF Trim, SelectInSeq, SelectLastInSeq, Span
  <1>2. I # {} => Max(I) # 0
    BY SpanIs
  <1> HIDE DEF I
  <1>3. CASE I = {}
    <2>1. (IF I # {} THEN Max(I) ELSE 0) = 0
      BY <1>3
    <2> QED
      BY <1>1, <1>3, <2>1, Zenon DEF I
  <1>4. CASE I # {}
    <2>1. (IF I # {} THEN Max(I) ELSE 0) = Max(I) /\ (IF I # {} THEN Min(I) ELSE 0) = Min(I)
      BY <1>4
    <2> QED
      BY <1>1, <1>2, <1>4, <2>1, Zenon DEF I
  <1> QED
    BY <1>3, <1>4

\* What is left has something at both ends.
LEMMA SpanTwice ==
  ASSUME NEW X, NEW s \in Seq(X), NEW c, Span(s, c) # {}
  PROVE  LET t == SubSeq(s, Min(Span(s, c)), Max(Span(s, c)))
         IN /\ t \in Seq(X) /\ t # <<>> /\ Span(t, c) # {}
            /\ SubSeq(t, Min(Span(t, c)), Max(Span(t, c))) = t
  <1> DEFINE j == Min(Span(s, c))
             k == Max(Span(s, c))
             t == SubSeq(s, j, k)
  <1>1. j \in 1..Len(s) /\ k \in j..Len(s) /\ s[j] # c /\ s[k] # c
    BY SpanIs
  <1> HIDE DEF j, k
  <1>2. t \in Seq(X) /\ t # <<>> /\ t[1] = s[j] /\ t[Len(t)] = s[k]
    BY <1>1, PartIs
  <1> HIDE DEF t
  <1>3. Span(t, c) # {} /\ SubSeq(t, Min(Span(t, c)), Max(Span(t, c))) = t
    BY <1>1, <1>2, SpanAll
  <1> QED
    BY <1>2, <1>3 DEF t, j, k

\* Once is enough.
LEMMA TrimTwice ==
  ASSUME NEW X, NEW s \in Seq(X), Trim(s) # <<>>
  PROVE  Trim(s) \in Seq(X) /\ Trim(Trim(s)) = Trim(s)
  <1> DEFINE t == SubSeq(s, Min(Span(s, " ")), Max(Span(s, " ")))
  <1>1. Span(s, " ") # {} /\ Trim(s) = t
    BY TrimIs, Zenon
  <1>2. /\ t \in Seq(X) /\ t # <<>> /\ Span(t, " ") # {}
        /\ SubSeq(t, Min(Span(t, " ")), Max(Span(t, " "))) = t
    BY <1>1, SpanTwice, Zenon
  <1> HIDE DEF t
  <1>3. Trim(t) = t
    BY <1>2, TrimIs, Zenon
  <1> QED
    BY <1>1, <1>2, <1>3, Zenon

\* Two sequences with the same first, and the second replaced.
LEMMA LastOfTwo == \A f, a, b : [<<f, a>> EXCEPT ![Len(<<f, a>>)] = b] = <<f, b>>
  <1> SUFFICES ASSUME NEW f, NEW a, NEW b
               PROVE  [<<f, a>> EXCEPT ![Len(<<f, a>>)] = b] = <<f, b>>
    OBVIOUS
  <1>1. Len(<<f, a>>) = 2
    OBVIOUS
  <1>2. <<f, a>> = [i \in 1..2 |-> IF i = 1 THEN f ELSE a] /\ <<f, b>> = [i \in 1..2 |-> IF i = 1 THEN f ELSE b]
    OBVIOUS
  <1> QED
    BY <1>1, <1>2

LEMMA AppendsTo ==
  ASSUME NEW f, NEW a, NEW b
  PROVE  /\ Append(<<f>>, a) = <<f, a>>
         /\ <<f>>[Len(<<f>>)] = f /\ <<f, a>>[Len(<<f, a>>)] = a
         /\ [<<f>> EXCEPT ![Len(<<f>>)] = a] = <<a>>
         /\ Len(<<f, a, b>>) = 3 /\ DOMAIN <<f, a, b>> = 1..3 /\ <<f, a, b>>[2] = a
  <1> DEFINE Y == {f, a, b}
  <1>1. f \in Y /\ a \in Y /\ b \in Y
    OBVIOUS
  <1> HIDE DEF Y
  <1>2. <<f>> \in Seq(Y) /\ <<f, a>> \in Seq(Y)
    BY <1>1
  <1>3. Append(<<f>>, a) = <<f, a>>
    <2> DEFINE u == Append(<<f>>, a)
               v == <<f, a>>
    <2>1. u \in Seq(Y) /\ Len(u) = 2 /\ u[1] = f /\ u[2] = a
      BY <1>1, <1>2, AppendProperties
    <2>2. v \in Seq(Y) /\ Len(v) = 2 /\ v[1] = f /\ v[2] = a
      BY <1>2
    <2> HIDE DEF u, v
    <2>3. \A i \in 1..2 : u[i] = v[i]
      BY <2>1, <2>2
    <2>4. u = v
      BY <2>1, <2>2, <2>3, SeqEqual
    <2> QED
      BY <2>4 DEF u, v
  <1>4. /\ <<f>>[Len(<<f>>)] = f /\ <<f, a>>[Len(<<f, a>>)] = a
        /\ Len(<<f, a, b>>) = 3 /\ DOMAIN <<f, a, b>> = 1..3 /\ <<f, a, b>>[2] = a
    OBVIOUS
  <1>5. [<<f>> EXCEPT ![Len(<<f>>)] = a] = <<a>>
    OBVIOUS
  <1> QED
    BY <1>3, <1>4, <1>5

LEMMA ThirdTo == ASSUME NEW f, NEW a, NEW b PROVE Append(<<f, a>>, b) = <<f, a, b>>
  <1> DEFINE Y == {f, a, b}
             u == Append(<<f, a>>, b)
             v == <<f, a, b>>
  <1>1. f \in Y /\ a \in Y /\ b \in Y
    OBVIOUS
  <1> HIDE DEF Y
  <1>2. <<f, a>> \in Seq(Y) /\ v \in Seq(Y)
    BY <1>1
  <1>3. u \in Seq(Y) /\ Len(u) = 3 /\ u[1] = f /\ u[2] = a /\ u[3] = b
    BY <1>1, <1>2, AppendProperties
  <1>4. Len(v) = 3 /\ v[1] = f /\ v[2] = a /\ v[3] = b
    OBVIOUS
  <1> HIDE DEF u, v
  <1>5. \A i \in 1..3 : u[i] = v[i]
    BY <1>3, <1>4
  <1>6. u = v
    BY <1>2, <1>3, <1>4, <1>5, SeqEqual
  <1> QED
    BY <1>6 DEF u, v

\* A text without a comma, among others, is one of those between the commas.
LEMMA Between ==
  ASSUME NEW X, NEW y \in X, NEW z \in X, y # z, NEW g \in Seq(X), z \notin ToSet(g)
  PROVE  g \in ToSet(Labels(<<y, z>> \o g \o <<z, y>>, {z}))
  <1> DEFINE x   == {z}
             w   == X \ x
             a   == <<y>>
             A   == <<y, z>>
             nil == <<>>
             T   == {t \in Seq(w) : Labels(Cat(A, t), x) = <<a, t>>}
  <1>1. y \in X /\ z \in X /\ y \notin x /\ nil \in Seq(X) /\ nil \in Seq(w)
    OBVIOUS
  <1>2. A \in Seq(X) /\ a \in Seq(X)
    OBVIOUS
  <1>3. Append(nil, y) = a
    OBVIOUS
  <1>4. Append(a, z) = A
    BY AppendsTo
  <1>5. Labels(nil, x) = <<nil>>
    BY LabelsStep
  <1> HIDE DEF nil, A, a
  <1>6. Labels(A, x) = <<a, nil>>
    <2>1. Labels(a, x) = CutOp(x, <<nil>>, y)
      BY <1>1, <1>3, <1>5, LabelsStep
    <2>2. CutOp(x, <<nil>>, y) = [<<nil>> EXCEPT ![Len(<<nil>>)] = Append(<<nil>>[Len(<<nil>>)], y)]
      BY <1>1, Zenon DEF CutOp
    <2>3. CutOp(x, <<nil>>, y) = <<a>>
      <3>1. <<nil>>[Len(<<nil>>)] = nil
        BY AppendsTo
      <3>2. [<<nil>> EXCEPT ![Len(<<nil>>)] = a] = <<a>>
        BY AppendsTo
      <3> QED
        BY <1>3, <2>2, <3>1, <3>2, Zenon
    <2>4. Labels(A, x) = CutOp(x, <<a>>, z)
      BY <1>1, <1>2, <1>4, <2>1, <2>3, LabelsStep
    <2>5. CutOp(x, <<a>>, z) = Append(<<a>>, nil)
      BY DEF CutOp, nil
    <2> QED
      BY <2>4, <2>5, AppendsTo, Zenon
  <1>7. nil \in T
    <2>1. Cat(A, nil) = A
      BY <1>2, ConcatEmptySeq DEF Cat, nil
    <2> QED
      BY <1>1, <1>6, <2>1
  <1>8. ASSUME NEW t \in Seq(w), NEW c \in w, t \in T PROVE Append(t, c) \in T
    <2>1. t \in Seq(X) /\ c \in X /\ c \notin x /\ Append(t, c) \in Seq(w)
      <3>1. t \in Seq(X)
        BY SeqMonotonic
      <3> QED
        BY <3>1, AppendProperties
    <2>2. Labels(Cat(A, t), x) = <<a, t>>
      BY <1>8
    <2> HIDE DEF T, w, x
    <2>3. Cat(A, t) \in Seq(X) /\ Append(Cat(A, t), c) = Cat(A, Append(t, c))
      BY <1>2, <2>1, CatAppend
    <2>4. Labels(Cat(A, Append(t, c)), x) = CutOp(x, <<a, t>>, c)
      <3>1. Labels(Append(Cat(A, t), c), x) = CutOp(x, Labels(Cat(A, t), x), c)
        BY <2>1, <2>3, LabelsStep
      <3> QED
        BY <2>2, <2>3, <3>1
    <2>5. CutOp(x, <<a, t>>, c) = <<a, Append(t, c)>>
      <3>1. CutOp(x, <<a, t>>, c) = [<<a, t>> EXCEPT ![Len(<<a, t>>)] = Append(<<a, t>>[Len(<<a, t>>)], c)]
        BY <2>1, Zenon DEF CutOp
      <3>2. <<a, t>>[Len(<<a, t>>)] = t
        BY AppendsTo
      <3>3. [<<a, t>> EXCEPT ![Len(<<a, t>>)] = Append(t, c)] = <<a, Append(t, c)>>
        BY LastOfTwo
      <3> QED
        BY <3>1, <3>2, <3>3, Zenon
    <2> QED
      BY <2>1, <2>4, <2>5 DEF T
  <1>9. g \in T
    <2>1. ToSet(g) \cap x = {}
      OBVIOUS
    <2>2. g \in Seq(w)
      BY <2>1, WithoutSome
    <2> HIDE DEF T, w
    <2>3. Seq(w) \subseteq T
      BY <1>7, <1>8, Cut!Appending DEF nil
    <2> QED
      BY <2>2, <2>3
  <1>10. Labels(Cat(A, g), x) = <<a, g>> /\ Cat(A, g) \in Seq(X)
    BY <1>2, <1>9, CatType
  <1> DEFINE p == Cat(A, g)
             q == Append(p, z)
  <1> HIDE DEF p
  <1>11. q \in Seq(X) /\ Labels(q, x) = <<a, g, nil>>
    <2>1. p \in Seq(X) /\ z \in X
      BY <1>10 DEF p
    <2>2. Labels(q, x) = CutOp(x, <<a, g>>, z)
      BY <1>10, <2>1, LabelsStep DEF p
    <2>3. CutOp(x, <<a, g>>, z) = Append(<<a, g>>, nil)
      BY DEF CutOp, nil
    <2> QED
      <3>1. q \in Seq(X)
        BY <2>1, AppendProperties
      <3>2. Append(<<a, g>>, nil) = <<a, g, nil>>
        BY ThirdTo
      <3> QED
        BY <2>2, <2>3, <3>1, <3>2, Zenon
  <1>12. Labels(Append(q, y), x)[2] = g /\ 2 \in DOMAIN Labels(Append(q, y), x)
    <2> DEFINE L == <<a, g, nil>>
    <2>1. Labels(Append(q, y), x) = CutOp(x, L, y)
      BY <1>11, LabelsStep
    <2>2. Len(L) = 3 /\ DOMAIN L = 1..3 /\ L[2] = g
      BY AppendsTo
    <2> HIDE DEF L
    <2>3. CutOp(x, L, y) = [L EXCEPT ![Len(L)] = Append(L[Len(L)], y)]
      BY <1>1, Zenon DEF CutOp
    <2>4. \A e : [L EXCEPT ![3] = e][2] = L[2] /\ 2 \in DOMAIN [L EXCEPT ![3] = e]
      <3>1. 2 \in DOMAIN L /\ 2 # 3
        BY <2>2
      <3> QED
        BY <3>1
    <2> QED
      BY <2>1, <2>2, <2>3, <2>4, Zenon
  <1>13. Append(q, y) = A \o g \o <<z, y>>
    <2>1. p \in Seq(X) /\ z \in X /\ y \in X
      BY <1>10 DEF p
    <2>2. ASSUME NEW c \in X, NEW d \in X PROVE Append(Append(p, c), d) = p \o <<c, d>>
      <3>1. <<c>> \in Seq(X) /\ Append(p, c) = Cat(p, <<c>>)
        BY <2>1, AppendIsConcat DEF Cat
      <3>2. Append(Cat(p, <<c>>), d) = Cat(p, Append(<<c>>, d))
        <4> DEFINE one == <<c>>
        <4>1. p \in Seq(X) /\ one \in Seq(X) /\ d \in X
          BY <2>1
        <4> HIDE DEF one
        <4>2. Append(Cat(p, one), d) = Cat(p, Append(one, d))
          BY <4>1, CatAppend
        <4> QED
          BY <4>2 DEF one
      <3>3. Append(<<c>>, d) = <<c, d>>
        BY AppendsTo
      <3> QED
        BY <3>1, <3>2, <3>3 DEF Cat
    <2>3. Append(q, y) = p \o <<z, y>>
      BY <2>1, <2>2
    <2> QED
      BY <2>3 DEF p, Cat
  <1>14. g \in ToSet(Labels(Append(q, y), x))
    BY <1>12, Zenon DEF ToSet
  <1> QED
    BY <1>13, <1>14, Zenon DEF A

\* What is stored of a group is a name that the header of a session and the
\* explain screen can carry.
LEMMA StoredGroup ==
  ASSUME NEW X, {"a", ","} \subseteq X, NEW s \in Seq(X), NEW g, g = ValidSubject("ad_group", s),
         g # NoText
  PROVE  LET among == <<"a", ",">> \o g \o <<",", "a">>
         IN g \in HeaderGroups(among) /\ g \in TypedGroups(among)
  <1> DEFINE among == <<"a", ",">> \o g \o <<",", "a">>
  <1>1. Trim(s) # <<>> /\ "," \notin ToSet(Trim(s)) /\ g = Trim(s)
    BY Zenon DEF ValidSubject
  <1>2. g \in Seq(X) /\ Trim(g) = g /\ g # <<>>
    BY <1>1, TrimTwice, Zenon
  <1>3. "a" \in X /\ "," \in X /\ "a" # ","
    OBVIOUS
  <1>4. g \in ToSet(Labels(among, {","}))
    BY <1>1, <1>2, <1>3, Between, Zenon
  <1> HIDE DEF among
  <1>5. g \in HeaderGroups(among)
    BY <1>2, <1>4, Zenon DEF HeaderGroups
  <1>6. g \in TypedGroups(among)
    <2>1. Trim(g) \in {Trim(h) : h \in ToSet(Labels(among, {","}))}
      BY <1>4, Zenon
    <2> QED
      BY <1>2, <2>1, Zenon DEF TypedGroups
  <1> QED
    BY <1>5, <1>6 DEF among

\* What the API stores has its effect: a rule denies, or grants, what is right
\* below its pattern, and a group is found among those of a session: for patterns
\* and groups of any length.
THEOREM AlwaysStoredRuleWorks == Spec => []StoredRuleWorks
  <1>1. ASSUME UriOK, TextOK PROVE StoredRuleWorks
    <2> DEFINE rule(effect) == [effect |-> effect, pattern |-> Append(uri, "*"), expires |-> {}]
               all   == [effect |-> "allow", pattern |-> <<>>, expires |-> {}]
               below == Append(uri, "b")
               group == ValidSubject("ad_group", text)
               among == <<"a", ",">> \o group \o <<",", "a">>
    <2>1. Alphabet \subseteq Char /\ {"*", "b"} \subseteq Char
      BY Chars DEF Char
    <2>2. {"a", ","} \subseteq Letter
      BY DEF Letter
    <2>3. uri \in Seq(Char) /\ text \in Seq(Letter)
      BY <1>1 DEF UriOK, TextOK
    <2> HIDE DEF Char, Letter
    <2>4. ASSUME ValidPattern(Append(uri, "*"))
          PROVE  /\ Decide(TRUE, <<all, rule("deny")>>, below, now) = "explicit_deny"
                 /\ ";" \in ToSet(uri) \/ Decide(TRUE, <<rule("allow")>>, below, now) = "allow"
      BY <2>1, <2>3, <2>4, StoredDecides, Zenon
    <2>5. ASSUME group # NoText
          PROVE  group \in HeaderGroups(among) /\ group \in TypedGroups(among)
      BY <2>2, <2>3, <2>5, StoredGroup, Zenon
    <2> QED
      BY <2>4, <2>5, Zenon DEF StoredRuleWorks
  <1> QED
    BY <1>1, UriAlwaysOK, TextAlwaysOK, PTL

-----------------------------------------------------------------------------
(***************************************************************************)
(* What is accepted of an application, and what is made of it.              *)
(***************************************************************************)
PickOp(x, list, row) == IF Rendered(row, x) THEN Append(list, row) ELSE list

Pick == INSTANCE LeftFold WITH Op <- PickOp

LEMMA PickStep ==
  ASSUME NEW portal, NEW X, NEW s \in Seq(X), NEW c \in X
  PROVE  Pick!Fold(portal, <<>>, Append(s, c)) = PickOp(portal, Pick!Fold(portal, <<>>, s), c)
  BY Pick!FoldAppend

LEMMA RenderableOne ==
  ASSUME NEW portal, NEW row, Rendered(row, portal)
  PROVE  Renderable(<<row>>, portal) = <<row>>
  <1> DEFINE Y   == {row}
             nil == <<>>
  <1>1. nil \in Seq(Y) /\ row \in Y /\ Append(nil, row) = <<row>>
    OBVIOUS
  <1>2. Renderable(<<row>>, portal) = Pick!Fold(portal, nil, <<row>>)
    BY DEF Renderable, FoldLeft, MapThenFoldSet, Max, Pick!Fold, Pick!Iter, Pick!Step, Pick!Top, PickOp
  <1>3. Pick!Fold(portal, nil, nil) = nil
    BY Pick!FoldEmpty
  <1>4. Pick!Fold(portal, nil, Append(nil, row)) = PickOp(portal, Pick!Fold(portal, nil, nil), row)
    <2> HIDE DEF Y
    <2> QED
      BY <1>1, PickStep
  <1>5. PickOp(portal, nil, row) = Append(nil, row)
    BY DEF PickOp
  <1> HIDE DEF nil, Y
  <1> QED
    BY <1>1, <1>2, <1>3, <1>4, <1>5, Zenon

\* Lowering, once more, changes nothing.
LEMMA LowerTwice ==
  ASSUME NEW X, {"a", "portal"} \subseteq X, NEW s \in Seq(X)
  PROVE  ToLower(s) \in Seq(X) /\ ToLower(ToLower(s)) = ToLower(s)
  <1> DEFINE t == ToLower(s)
  <1>1. t = [i \in DOMAIN s |-> IF s[i] \in DOMAIN Fold THEN Fold[s[i]] ELSE s[i]]
    BY DEF ToLower
  <1>2. \A i \in DOMAIN s : s[i] \in X
    BY ElementIn
  <1>3. DOMAIN Fold = {"A", "Portal"} /\ Fold["A"] = "a" /\ Fold["Portal"] = "portal"
    BY DEF Fold
  <1>4. DOMAIN t = DOMAIN s /\ t = [i \in DOMAIN s |-> t[i]]
    BY <1>1
  <1>5. ASSUME NEW i \in DOMAIN s PROVE t[i] \in X /\ t[i] \notin DOMAIN Fold
    <2>1. t[i] = IF s[i] \in DOMAIN Fold THEN Fold[s[i]] ELSE s[i]
      BY <1>1
    <2>2. Fold["A"] \in X \ DOMAIN Fold /\ Fold["Portal"] \in X \ DOMAIN Fold
      BY <1>3
    <2> HIDE DEF t
    <2>3. CASE s[i] \in DOMAIN Fold
      <3>1. s[i] \in {"A", "Portal"}
        BY <1>3, <2>3, Zenon
      <3> QED
        BY <2>1, <2>2, <2>3, <3>1
    <2>4. CASE s[i] \notin DOMAIN Fold
      BY <1>2, <2>1, <2>4
    <2> QED
      BY <2>3, <2>4
  <1> HIDE DEF t
  <1>6. t \in Seq(X)
    BY <1>4, <1>5, Replacing
  <1>7. ToLower(t) = t
    BY <1>4, <1>5 DEF ToLower
  <1> QED
    BY <1>6, <1>7 DEF t

\* What is stored of a hostname is accepted, and is stored again as it is.
LEMMA HostTwice ==
  ASSUME NEW X, {"a", "portal"} \subseteq X, NEW s \in Seq(X), NEW portal,
         ValidHostname(s, portal) # NoText
  PROVE  LET host == ValidHostname(s, portal)
         IN ValidHostname(host, portal) = host /\ CheckLabels(host, {".", "-"})
  <1> DEFINE t == ToLower(s)
  <1>1. t \in Seq(X) /\ ToLower(t) = t
    BY LowerTwice
  <1>2. /\ ValidHostname(s, portal) = t /\ Labelled(t, {".", "-"})
        /\ Labels(t, {"."})[1] # <<"portal">> /\ t # portal
    BY Zenon DEF ValidHostname
  <1> HIDE DEF t
  <1>3. ValidHostname(t, portal) = t
    BY <1>1, <1>2, Zenon DEF ValidHostname
  <1>4. {".", "-"} \cap Lowercase = {}
    BY DEF Lowercase
  <1>5. CheckLabels(t, {".", "-"})
    BY <1>1, <1>2, <1>4, LabelledIsChecked, Zenon
  <1> QED
    BY <1>2, <1>3, <1>5, Zenon

LEMMA TrimAgain == ASSUME NEW X, NEW s \in Seq(X) PROVE Trim(Trim(s)) = Trim(s)
  <1>1. CASE Trim(s) = <<>>
    <2>1. Span(<<>>, " ") = {} /\ <<>> \in Seq(X)
      BY DEF Span
    <2>2. Trim(<<>>) = <<>>
      BY <2>1, TrimIs, Zenon
    <2> QED
      BY <1>1, <2>2
  <1>2. CASE Trim(s) # <<>>
    BY <1>2, TrimTwice
  <1> QED
    BY <1>1, <1>2

\* So are a name and an icon.
LEMMA NameTwice ==
  ASSUME NEW X, NEW s \in Seq(X)
  PROVE  /\ ValidName(s) # NoText => ValidName(s) # <<>> /\ ValidName(ValidName(s)) = ValidName(s)
         /\ ValidIcon(s) # NoText => ValidIcon(ValidIcon(s)) = ValidIcon(s)
  <1> DEFINE t == Trim(s)
  <1>1. Trim(t) = t
    BY TrimAgain
  <1>2. ASSUME ValidName(s) # NoText PROVE ValidName(s) = t /\ t # <<>> /\ ValidName(t) = t
    <2>1. ValidName(s) = t /\ t # <<>> /\ Len(t) <= LABEL_MAX
      BY <1>2, Zenon DEF ValidName
    <2> HIDE DEF t
    <2>2. ValidName(t) = t
      BY <1>1, <2>1, Zenon DEF ValidName
    <2> QED
      BY <2>1, <2>2
  <1>3. ASSUME ValidIcon(s) # NoText PROVE ValidIcon(s) = t /\ ValidIcon(t) = t
    <2>1. ValidIcon(s) = t /\ Len(t) <= LABEL_MAX
      BY <1>3, Zenon DEF ValidIcon
    <2> HIDE DEF t
    <2>2. ValidIcon(t) = t
      BY <1>1, <2>1, Zenon DEF ValidIcon
    <2> QED
      BY <2>1, <2>2
  <1> HIDE DEF t
  <1> QED
    BY <1>2, <1>3

\* What an application is typed as.
Field == {"slug", "external_hostname", "name", "icon", "upstream_url", "enabled"}

RowOf(X, new) ==
  /\ new = [f \in Field |-> new[f]]
  /\ new.slug \in Seq(X) /\ new.external_hostname \in Seq(X)
  /\ new.name \in Seq(X) /\ new.icon \in Seq(X) /\ new.enabled

LEMMA StoredIs ==
  ASSUME NEW X, NEW new, RowOf(X, new), NEW portal
  PROVE  LET row == Stored(new, portal)
         IN /\ row = [f \in Field |-> row[f]]
            /\ row.slug = new.slug /\ row.upstream_url = new.upstream_url /\ row.enabled = new.enabled
            /\ row.external_hostname = ValidHostname(new.external_hostname, portal)
            /\ row.name = ValidName(new.name) /\ row.icon = ValidIcon(new.icon)
  BY DEF RowOf, Stored, Field

LEMMA AcceptedServed ==
  ASSUME NEW X, {"a", "portal"} \subseteq X, NEW new, RowOf(X, new), NEW portal,
         Accepts(new, portal)
  PROVE  LET row == Stored(new, portal)
         IN /\ Checked(row) <=> ~new.upstream_url.dressed
            /\ Renderable(<<row>>, portal) = <<row>>
            /\ Accepts(row, portal) /\ Stored(row, portal) = row
  <1> DEFINE row  == Stored(new, portal)
             host == ValidHostname(new.external_hostname, portal)
             name == ValidName(new.name)
             icon == ValidIcon(new.icon)
             again == Stored(row, portal)
  <1>1. /\ row = [f \in Field |-> row[f]]
        /\ row.slug = new.slug /\ row.upstream_url = new.upstream_url /\ row.enabled = new.enabled
        /\ row.external_hostname = host /\ row.name = name /\ row.icon = icon
    BY StoredIs
  <1>2. /\ ValidSlug(new.slug) /\ ValidUpstream(new.upstream_url)
        /\ host # NoText /\ name # NoText /\ icon # NoText
    BY DEF Accepts
  <1>3. ValidHostname(host, portal) = host /\ CheckLabels(host, {".", "-"})
    BY <1>2, HostTwice DEF RowOf
  <1>4. name # <<>> /\ ValidName(name) = name /\ ValidIcon(icon) = icon
    BY <1>2, NameTwice DEF RowOf
  <1>5. CheckLabels(new.slug, {"-"})
    <2>1. {"-"} \cap Lowercase = {}
      BY DEF Lowercase
    <2>2. Labelled(new.slug, {"-"}) /\ new.slug \in Seq(X)
      BY <1>2 DEF ValidSlug, RowOf
    <2> QED
      BY <2>1, <2>2, LabelledIsChecked, Zenon
  <1>6. CheckUpstream(new.upstream_url) <=> ~new.upstream_url.dressed
    BY <1>2 DEF ValidUpstream, CheckUpstream
  <1>7. new.enabled
    BY DEF RowOf
  <1> HIDE DEF row, host, name, icon
  <1>8. Checked(row) <=> ~new.upstream_url.dressed
    BY <1>1, <1>3, <1>4, <1>5, <1>6, Zenon DEF Checked
  <1>9. Accepts(row, portal)
    BY <1>1, <1>2, <1>3, <1>4, Zenon DEF Accepts
  <1>10. Renderable(<<row>>, portal) = <<row>>
    <2>1. Rendered(row, portal)
      BY <1>1, <1>2, <1>3, <1>7, Zenon DEF Rendered
    <2> QED
      BY <2>1, RenderableOne
  <1>11. again = row
    <2>1. again = [row EXCEPT !.external_hostname = host, !.name = name, !.icon = icon]
      BY <1>1, <1>3, <1>4 DEF Stored
    <2> QED
      BY <1>1, <2>1 DEF Field
  <1> QED
    BY <1>8, <1>9, <1>10, <1>11 DEF row

\* And the way back: a patch is judged, and changes the row, as a new application
\* that is otherwise the same would be.
LEMMA PatchedServed ==
  ASSUME NEW X, NEW new, RowOf(X, new), NEW first, RowOf(X, first), NEW portal,
         ValidSlug(first.slug), ValidHostname(first.external_hostname, portal) = first.external_hostname,
         first.external_hostname # NoText,
         new.slug = first.slug, new.external_hostname = first.external_hostname
  PROVE  LET patch == [f \in Patchable |-> new[f]]
         IN /\ PatchAccepts(patch) <=> Accepts(new, portal)
            /\ Patched(first, patch) = Stored(new, portal)
  <1> DEFINE patch == [f \in Patchable |-> new[f]]
             row   == Stored(new, portal)
             after == Patched(first, patch)
  <1>1. DOMAIN patch = Patchable /\ \A f \in Patchable : patch[f] = new[f]
    OBVIOUS
  <1>2. {"name", "icon", "upstream_url", "enabled"} = Patchable
    BY DEF Patchable
  <1>3. patch.name = new.name /\ patch.icon = new.icon /\ patch.upstream_url = new.upstream_url
    BY <1>1, <1>2
  <1>4. PatchAccepts(patch) <=> ValidUpstream(new.upstream_url) /\ ValidName(new.name) # NoText
                                  /\ ValidIcon(new.icon) # NoText
    <2> HIDE DEF patch
    <2>1. "name" \in DOMAIN patch /\ "icon" \in DOMAIN patch /\ "upstream_url" \in DOMAIN patch
      BY <1>1, <1>2
    <2> QED
      BY <1>3, <2>1, Zenon DEF PatchAccepts
  <1>5. PatchAccepts(patch) <=> Accepts(new, portal)
    BY <1>4, Zenon DEF Accepts
  <1>6. /\ row = [f \in Field |-> row[f]]
        /\ row.slug = first.slug /\ row.upstream_url = new.upstream_url /\ row.enabled = new.enabled
        /\ row.external_hostname = first.external_hostname
        /\ row.name = ValidName(new.name) /\ row.icon = ValidIcon(new.icon)
    BY StoredIs
  <1>7. after = row
    <2>1. DOMAIN first = Field
      BY DEF RowOf
    <2> HIDE DEF patch, row
    <2>2. after = [f \in Field |-> IF f \notin Patchable THEN first[f]
                                   ELSE IF f = "name" THEN ValidName(new.name)
                                   ELSE IF f = "icon" THEN ValidIcon(new.icon) ELSE patch[f]]
      BY <1>1, <1>3, <2>1 DEF Patched
    <2>3. \A f \in Patchable : patch[f] = new[f]
      BY <1>1
    <2> HIDE DEF after
    <2>4. ASSUME NEW f \in Field PROVE after[f] = row[f]
      <3>1. CASE f = "slug"
        BY <1>6, <2>2, <3>1 DEF Field, Patchable
      <3>2. CASE f = "external_hostname"
        BY <1>6, <2>2, <3>2 DEF Field, Patchable
      <3>3. CASE f = "name"
        BY <1>6, <2>2, <3>3 DEF Field, Patchable
      <3>4. CASE f = "icon"
        BY <1>6, <2>2, <3>4 DEF Field, Patchable
      <3>5. CASE f = "upstream_url"
        BY <1>6, <2>2, <2>3, <3>5 DEF Field, Patchable
      <3>6. CASE f = "enabled"
        BY <1>6, <2>2, <2>3, <3>6 DEF Field, Patchable
      <3> QED
        BY <3>1, <3>2, <3>3, <3>4, <3>5, <3>6 DEF Field
    <2>5. after = [f \in Field |-> after[f]]
      BY <2>2
    <2> QED
      BY <1>6, <2>4, <2>5
  <1> QED
    BY <1>5, <1>7

\* The text of one letter is a slug and a hostname.
LEMMA PlainIsValid ==
  ASSUME NEW portal, portal # <<"a">>
  PROVE  ValidSlug(<<"a">>) /\ ValidHostname(<<"a">>, portal) = <<"a">> /\ <<"a">> # NoText
  <1> DEFINE a == <<"a">>
             X == {"a", "portal"}
  <1>1. a \in Seq(X) /\ DOMAIN a = {1} /\ a[1] = "a" /\ Append(<<>>, "a") = a /\ <<>> \in Seq(X) /\ a # <<>>
    OBVIOUS
  <1>2. ToSet(a) \subseteq Lowercase /\ "a" \notin {".", "-"} /\ "a" \notin {"-"} /\ "a" \notin {"."}
    BY <1>1 DEF ToSet, Lowercase
  <1>3. ASSUME NEW x, "a" \notin x PROVE Labels(a, x) = <<a>>
    <2> DEFINE nil == <<>>
    <2>1. nil \in Seq(X) /\ Append(nil, "a") = a /\ Labels(nil, x) = <<nil>>
      BY <1>1, LabelsStep
    <2>2. "a" \in X
      OBVIOUS
    <2> HIDE DEF nil, a, X
    <2>3. Labels(a, x) = CutOp(x, <<nil>>, "a")
      BY <2>1, <2>2, LabelsStep
    <2>4. CutOp(x, <<nil>>, "a") = [<<nil>> EXCEPT ![Len(<<nil>>)] = Append(<<nil>>[Len(<<nil>>)], "a")]
      BY <1>3, Zenon DEF CutOp
    <2>5. <<nil>>[Len(<<nil>>)] = nil
      BY AppendsTo
    <2>6. [<<nil>> EXCEPT ![Len(<<nil>>)] = a] = <<a>>
      BY AppendsTo
    <2> QED
      BY <2>1, <2>3, <2>4, <2>5, <2>6, Zenon
  <1>4. ASSUME NEW x, "a" \notin x PROVE Labelled(a, x)
    <2>1. Labels(a, x) = <<a>>
      BY <1>3, <1>4
    <2>2. DOMAIN <<a>> = {1} /\ <<a>>[1] = a
      OBVIOUS
    <2> HIDE DEF a
    <2> QED
      BY <1>1, <1>2, <2>1, <2>2, Zenon DEF Labelled
  <1>5. ToLower(a) = a
    <2>1. "a" \notin DOMAIN Fold
      BY DEF Fold
    <2>2. a = [i \in DOMAIN a |-> a[i]]
      OBVIOUS
    <2> HIDE DEF a
    <2> QED
      BY <1>1, <2>1, <2>2 DEF ToLower
  <1>6. Labels(a, {"."})[1] # <<"portal">>
    <2>1. Labels(a, {"."}) = <<a>>
      BY <1>2, <1>3
    <2>2. a # <<"portal">>
      OBVIOUS
    <2>3. <<a>>[1] = a
      OBVIOUS
    <2> QED
      BY <2>1, <2>2, <2>3, Zenon
  <1>7. a # NoText
    BY DEF NoText
  <1>8. ValidSlug(a)
    BY <1>2, <1>4 DEF ValidSlug
  <1>9. Labelled(a, {".", "-"})
    BY <1>2, <1>4
  <1>10. ValidHostname(a, portal) = a
    <2>1. a # portal
      OBVIOUS
    <2> HIDE DEF a
    <2> QED
      BY <1>5, <1>6, <1>9, <2>1, Zenon DEF ValidHostname
  <1> QED
    BY <1>7, <1>8, <1>10

\* What the API accepts of an application the table accepts, unless its URL was
\* dressed, which the table always refuses; nginx is given it in one block with its
\* names; the form that shows it stores it as it was; and a patch lets through what
\* a new application would have: for texts of any length.
THEOREM AlwaysAcceptedIsServed == Spec => []AcceptedIsServed
  <1>1. ASSUME TextOK, text # <<>> PROVE AcceptedIsServed
    <2> DEFINE plain   == <<"a">>
               portal  == <<"a", ".", "a">>
               service == [scheme |-> "http", dressed |-> FALSE, credentials |-> FALSE,
                           host |-> "service", port |-> 80, rest |-> ""]
               first   == [slug |-> plain, external_hostname |-> plain, name |-> plain, icon |-> <<>>,
                           upstream_url |-> service, enabled |-> TRUE]
               urls    == IF text = plain THEN Url ELSE {service}
    <2> SUFFICES ASSUME NEW typed \in {"slug", "external_hostname", "name", "icon"}, NEW url \in urls
                 PROVE  LET new   == [first EXCEPT ![typed] = text, !.upstream_url = url]
                            row   == Stored(new, portal)
                            patch == [f \in Patchable |-> new[f]]
                        IN /\ Accepts(new, portal) =>
                                /\ Checked(row) <=> ~url.dressed
                                /\ Len(RenderApps(<<row>>, portal)) = 1
                                /\ RenderApps(<<row>>, portal)[1].set = row.slug
                                /\ RenderBreakglass(<<row>>, portal)[1].server_name = row.external_hostname
                                /\ Accepts(row, portal) /\ Stored(row, portal) = row
                           /\ typed \in Patchable =>
                                /\ PatchAccepts(patch) <=> Accepts(new, portal)
                                /\ Accepts(new, portal) => Patched(first, patch) = row
      BY Zenon DEF AcceptedIsServed
    <2> DEFINE new   == [first EXCEPT ![typed] = text, !.upstream_url = url]
               row   == Stored(new, portal)
               patch == [f \in Patchable |-> new[f]]
    <2>1. {"a", "portal"} \subseteq Letter /\ text \in Seq(Letter)
      BY <1>1 DEF Letter, TextOK
    <2>2. portal # plain
      OBVIOUS
    <2>3. /\ first = [f \in Field |-> first[f]]
          /\ first.slug = plain /\ first.external_hostname = plain /\ first.name = plain
          /\ first.icon = <<>> /\ first.enabled = TRUE
      BY DEF Field
    <2> HIDE DEF first, urls, service, portal
    <2>4. plain \in Seq(Letter) /\ <<>> \in Seq(Letter)
      BY <2>1
    <2> HIDE DEF plain
    <2>5. /\ new = [f \in Field |-> new[f]]
          /\ new.upstream_url = url /\ new.enabled = first.enabled
          /\ new.slug = (IF typed = "slug" THEN text ELSE plain)
          /\ new.external_hostname = (IF typed = "external_hostname" THEN text ELSE plain)
          /\ new.name = (IF typed = "name" THEN text ELSE plain)
          /\ new.icon = (IF typed = "icon" THEN text ELSE <<>>)
      BY <2>3 DEF Field
    <2>6. RowOf(Letter, first)
      BY <2>3, <2>4 DEF RowOf
    <2> HIDE DEF new
    <2>7. RowOf(Letter, new)
      BY <2>1, <2>3, <2>4, <2>5 DEF RowOf
    <2>8. ASSUME Accepts(new, portal)
          PROVE  /\ Checked(row) <=> ~url.dressed
                 /\ Len(RenderApps(<<row>>, portal)) = 1
                 /\ RenderApps(<<row>>, portal)[1].set = row.slug
                 /\ RenderBreakglass(<<row>>, portal)[1].server_name = row.external_hostname
                 /\ Accepts(row, portal) /\ Stored(row, portal) = row
      <3>1. new.upstream_url = url
        BY <2>5
      <3>2. /\ Checked(row) <=> ~new.upstream_url.dressed
            /\ Renderable(<<row>>, portal) = <<row>>
            /\ Accepts(row, portal) /\ Stored(row, portal) = row
        BY <2>1, <2>7, <2>8, AcceptedServed
      <3> HIDE DEF row
      <3>3. DOMAIN <<row>> = 1..1 /\ <<row>>[1] = row
        OBVIOUS
      <3>4. RenderApps(<<row>>, portal) =
              [i \in 1..1 |-> [server_name |-> <<row>>[i].external_hostname, set |-> <<row>>[i].slug,
                               include |-> {"errors.inc", "decide.inc", "protected.inc"}]]
        BY <3>2, <3>3 DEF RenderApps
      <3>5. RenderBreakglass(<<row>>, portal) =
              [i \in 1..1 |-> [server_name |-> <<row>>[i].external_hostname, set |-> <<>>,
                               include |-> {"upstream.inc"}]]
        BY <3>2, <3>3 DEF RenderBreakglass
      <3>6. Len(RenderApps(<<row>>, portal)) = 1 /\ RenderApps(<<row>>, portal)[1].set = row.slug
        BY <3>3, <3>4
      <3>7. RenderBreakglass(<<row>>, portal)[1].server_name = row.external_hostname
        BY <3>3, <3>5
      <3> QED
        BY <3>1, <3>2, <3>6, <3>7
    <2>9. ASSUME typed \in Patchable
          PROVE  /\ PatchAccepts(patch) <=> Accepts(new, portal)
                 /\ Patched(first, patch) = row
      <3>1. typed # "slug" /\ typed # "external_hostname"
        BY <2>9 DEF Patchable
      <3>2. new.slug = first.slug /\ new.external_hostname = first.external_hostname
        BY <2>3, <2>5, <3>1
      <3>3. /\ ValidSlug(first.slug)
            /\ ValidHostname(first.external_hostname, portal) = first.external_hostname
            /\ first.external_hostname # NoText
        <4>1. portal # <<"a">>
          BY <2>2 DEF plain
        <4>2. ValidSlug(plain) /\ ValidHostname(plain, portal) = plain /\ plain # NoText
          BY <4>1, PlainIsValid, Zenon DEF plain
        <4> QED
          BY <2>3, <4>2, Zenon
      <3> QED
        BY <2>6, <2>7, <3>2, <3>3, PatchedServed
    <2> QED
      BY <2>8, <2>9, Zenon DEF new
  <1>2. text = <<>> => AcceptedIsServed
    BY DEF AcceptedIsServed
  <1>3. TextOK => AcceptedIsServed
    BY <1>1, <1>2
  <1> QED
    BY <1>3, TextAlwaysOK, PTL
=============================================================================
