-------------------------------- MODULE MCPolicy --------------------------------
(***************************************************************************)
(* Every small request against every small list of rules, and every small  *)
(* text: a state is one question, and a step makes it larger.              *)
(***************************************************************************)
EXTENDS Policy, Registration, FiniteSets

CONSTANTS
  MaxSize,  \* bound: pieces of the path and rules together
  MaxRules, \* bound: rules
  MaxText   \* bound: characters typed

VARIABLES
  uri,    \* the path as the client wrote it
  size,   \* how many pieces it has
  rules,  \* the rules of the user for the application
  text    \* or what an administrator types into a field

vars == <<uri, size, rules, text>>

now == 1

Separator == {<<"/">>, <<"\\">>, <<"%2f">>}
Name == { <<>>, <<"a">>, <<"A">>, <<"%41">>, <<"a", "b">>, <<".">>, <<".", ".">>,
          <<"%2e", ".">>, <<"a", ";", "b">>, <<".", ".", ";">>, <<"%25">>, <<"?">>,
          <<"%3f">>, <<"%zz">> }

Pattern == {<<>>, <<"/", "a", "/", "*">>, <<"/", "a", "/", "a", "/", "*">>}
Rule    == [effect : {"allow", "deny"}, pattern : Pattern, expires : {{}, {1}, {2}}]

Letter == {"a", "A", "portal", "Portal", ".", "-", ";", " ", ","}

Init == uri = <<>> /\ size = 0 /\ rules = <<>> /\ text = <<>>

Longer ==
  /\ text = <<>> /\ size + Len(rules) < MaxSize
  /\ \E s \in Separator, n \in Name : uri' = uri \o s \o n
  /\ size' = size + 1
  /\ UNCHANGED <<rules, text>>

OneMore ==
  /\ text = <<>> /\ size + Len(rules) < MaxSize /\ Len(rules) < MaxRules
  /\ \E r \in Rule : rules' = Append(rules, r)
  /\ UNCHANGED <<uri, size, text>>

Type ==
  /\ size = 0 /\ rules = <<>> /\ Len(text) < MaxText
  /\ \E c \in Letter : text' = Append(text, c)
  /\ UNCHANGED <<uri, size, rules>>

Next == Longer \/ OneMore \/ Type
Spec == Init /\ [][Next]_vars

-----------------------------------------------------------------------------
Path     == UpTo(uri, "?")
Verdict  == Decide(TRUE, rules, uri, now)
Segments(path) == Tail(Split(path))

\* The reference for matches: one sequence of segments begins with the other.
Under(path, pattern) == IsPrefix(Segments(Base(pattern)), Segments(path))

\* ADR-0037 decides under three readings because legitimate paths read the same
\* under all of them: those with no parameter, no backslash and no escape of
\* anything but a letter.
OneReading ==
  ToSet(Path) \cap {";", "\\", "%2f", "%5c", "%2e", "%25"} = {} =>
    Cardinality(Readings(uri)) <= 1

\* What the upstreams of ADR-0037 would serve for the request.
Served ==
  {Resolve(Slashes(PercentDecode(Path))), PercentDecode(Resolve(Path)),
   PercentDecode(Resolve(Unparametered(Path)))}

\* What is allowed is, whichever of them serves it, under a live grant and under
\* no live deny, with the boundary of a rule at a segment and not at a character,
\* and in whatever order the rules came (rules_for sorts nothing).
AllowedEverywhere ==
  Verdict = "allow" =>
    \A path \in {LowerCase(p) : p \in Served} :
      /\ \E i \in DOMAIN rules : rules[i].effect = "allow" /\ Live(rules[i], now)
                                   /\ Under(path, rules[i].pattern)
      /\ \A i \in DOMAIN rules : rules[i].effect = "deny" /\ Live(rules[i], now) =>
                                   ~Under(path, rules[i].pattern)

\* The explain screen annotates with one reading what decide took under three:
\* for a request that passes it still names a live grant, and no live deny.
GrantIsShown ==
  LET shown == Explain(rules, uri, now)
      Counts(i) == shown[i].matched /\ ~shown[i].expired
  IN Verdict = "allow" =>
       /\ \E i \in DOMAIN rules : Counts(i) /\ rules[i].effect = "allow"
       /\ \A i \in DOMAIN rules : Counts(i) => rules[i].effect = "allow"

\* validate.rs: a stored deny that never fires "is worse than one that was never
\* accepted".  Below the path a stored pattern is written for, a deny denies and
\* a grant grants -- but a grant with a ";" in it never does, as ADR-0037 accepts.
\* And a stored group is one that a session's header, and the explain screen, can
\* name: create_entitlement, "a rule the admin reads back as typed while it matches
\* nothing".
StoredRuleWorks ==
  LET rule(effect) == [effect |-> effect, pattern |-> Append(uri, "*"), expires |-> {}]
      all          == [effect |-> "allow", pattern |-> <<>>, expires |-> {}]
      below        == Append(uri, "b")
      group        == ValidSubject("ad_group", text)
      among        == <<"a", ",">> \o group \o <<",", "a">>
  IN /\ ValidPattern(Append(uri, "*")) =>
          /\ Decide(TRUE, <<all, rule("deny")>>, below, now) = "explicit_deny"
          /\ ";" \in ToSet(uri) \/ Decide(TRUE, <<rule("allow")>>, below, now) = "allow"
     /\ group # NoText => group \in HeaderGroups(among) /\ group \in TypedGroups(among)

\* labelled is the CHECK constraints "written once, and without a regex crate".
SchemaAgrees == \A separators \in {{"-"}, {".", "-"}} :
  Labelled(text, separators) <=> CheckLabels(text, separators)

\* create_application, the table and the renderer.  validate.rs:143 has the table's
\* shapes a second time, so that a refusal does not read as an outage: what the API
\* accepts of an application the table refuses, with a 503, for one reason only, a
\* URL that was typed in another dress than parsing gives it.  All else that
\* is accepted is rendered, in one block under its own names, and is not another
\* application when it comes back from the form it is shown in; and a patch is no
\* "second door" for what the create path refuses.
AcceptedIsServed ==
  LET plain  == <<"a">>
      portal == <<"a", ".", "a">>
      service == [scheme |-> "http", dressed |-> FALSE, credentials |-> FALSE,
                  host |-> "service", port |-> 80, rest |-> ""]
      first  == [slug |-> plain, external_hostname |-> plain, name |-> plain, icon |-> <<>>,
                 upstream_url |-> service, enabled |-> TRUE]
      urls   == IF text = plain THEN Url ELSE {service}
  IN text # <<>> => \A typed \in {"slug", "external_hostname", "name", "icon"}, url \in urls :
       LET new   == [first EXCEPT ![typed] = text, !.upstream_url = url]
           row   == Stored(new, portal)
           patch == [f \in Patchable |-> new[f]]
       IN /\ Accepts(new, portal) =>
               /\ Checked(row) <=> ~url.dressed
               /\ Len(RenderApps(<<row>>, portal)) = 1
               /\ RenderApps(<<row>>, portal)[1].set = row.slug
               /\ RenderBreakglass(<<row>>, portal)[1].server_name = row.external_hostname
               /\ Accepts(row, portal) /\ Stored(row, portal) = row
          /\ typed \in Patchable =>
               /\ PatchAccepts(patch) <=> Accepts(new, portal)
               /\ Accepts(new, portal) => Patched(first, patch) = row
=============================================================================
