------------------------------ MODULE Registration ------------------------------
(***************************************************************************)
(* From what an administrator types of an application to the server block  *)
(* nginx is given: the checks of the management API, the CHECK constraints *)
(* of the table, and the list both configuration files are rendered from.  *)
(*                                                                         *)
(* A text is a sequence of characters; "portal" and "Portal" are each one. *)
(* A URL is what parsing makes of it, and whether it was dressed: typed    *)
(* with its scheme in capitals, blanks around it or a slash left out.      *)
(***************************************************************************)
EXTENDS Integers, Sequences, SequencesExt

CONSTANT LABEL_MAX

Fold       == [c \in {"A", "Portal"} |-> IF c = "A" THEN "a" ELSE "portal"]
ToLower(s) == [i \in DOMAIN s |-> IF s[i] \in DOMAIN Fold THEN Fold[s[i]] ELSE s[i]]
Lowercase  == {"a", "0", "portal"}   \* and digits

\* s cut at every separator.
Labels(s, separators) ==
  FoldLeft(LAMBDA labels, c : IF c \in separators THEN Append(labels, <<>>)
                              ELSE [labels EXCEPT ![Len(labels)] = Append(@, c)],
           << <<>> >>, s)

\* (Deviation: an empty label is a label.)
LabelledEmpty(s, separators) ==
  s # <<>> /\ \A i \in DOMAIN Labels(s, separators) : ToSet(Labels(s, separators)[i]) \subseteq Lowercase

Labelled(s, separators) ==
  /\ s # <<>>
  /\ \A i \in DOMAIN Labels(s, separators) :
       LET label == Labels(s, separators)[i] IN label # <<>> /\ ToSet(label) \subseteq Lowercase

NoText == <<"refused">>

ValidSlug(s) == Labelled(s, {"-"})

\* (Deviation: answers with the name as it was typed.)
ValidHostnameTyped(s, portal) ==
  IF /\ Labelled(ToLower(s), {".", "-"})
     /\ Labels(ToLower(s), {"."})[1] # <<"portal">>
     /\ ToLower(s) # portal
  THEN s ELSE NoText

\* What is stored of a hostname.
ValidHostname(s, portal) ==
  IF /\ Labelled(ToLower(s), {".", "-"})
     /\ Labels(ToLower(s), {"."})[1] # <<"portal">>
     /\ ToLower(s) # portal
  THEN ToLower(s) ELSE NoText

Trim(s) ==
  LET end == SelectLastInSeq(s, LAMBDA c : c # " ")
  IN IF end = 0 THEN <<>> ELSE SubSeq(s, SelectInSeq(s, LAMBDA c : c # " "), end)

ValidName(s) == IF Trim(s) # <<>> /\ Len(Trim(s)) <= LABEL_MAX THEN Trim(s) ELSE NoText

\* An icon may be absent: <<>>.
ValidIcon(s) == IF Len(Trim(s)) <= LABEL_MAX THEN Trim(s) ELSE NoText

Infrastructure == {5432, 6379, 389, 636, 3268, 3269}
Host == {"service", "infrastructure", "odd", "address", "loopback", "linklocal"}
Url  == [scheme : {"http", "https", "ftp"}, dressed : BOOLEAN, credentials : BOOLEAN,
         host : Host, port : {0, 80, 5432}, rest : {"", "/", "/path"}]

ValidUpstream(url) ==
  /\ url.scheme \in {"http", "https"}
  /\ ~url.credentials
  /\ url.rest \in {"", "/"}
  /\ url.port \notin Infrastructure
  /\ url.host \in {"service", "address"}

-----------------------------------------------------------------------------
\* create_application: the row, if it is not refused.
Accepts(new, portal) ==
  /\ ValidSlug(new.slug)
  /\ ValidUpstream(new.upstream_url)
  /\ ValidHostname(new.external_hostname, portal) # NoText
  /\ ValidName(new.name) # NoText
  /\ ValidIcon(new.icon) # NoText

Stored(new, portal) ==
  [new EXCEPT !.external_hostname = ValidHostname(@, portal), !.name = ValidName(@),
              !.icon = ValidIcon(@)]

\* update_application.  A patch has the fields that are present; neither the slug
\* nor the hostname can be.
Patchable == {"name", "icon", "upstream_url", "enabled"}

PatchAccepts(patch) ==
  /\ "upstream_url" \in DOMAIN patch => ValidUpstream(patch.upstream_url)
  /\ "name" \in DOMAIN patch => ValidName(patch.name) # NoText
  /\ "icon" \in DOMAIN patch => ValidIcon(patch.icon) # NoText

Patched(row, patch) ==
  [f \in DOMAIN row |-> IF f \notin DOMAIN patch THEN row[f]
                        ELSE IF f = "name" THEN ValidName(patch.name)
                        ELSE IF f = "icon" THEN ValidIcon(patch.icon) ELSE patch[f]]

\* create_entitlement, whom a rule is for.
ValidSubject(type, s) ==
  IF Trim(s) = <<>> \/ (type = "ad_group" /\ "," \in ToSet(Trim(s))) THEN NoText ELSE Trim(s)

\* The groups of a session, of the header that carries them; and those typed
\* into the explain screen.
HeaderGroups(header) == ToSet(Labels(header, {","})) \ {<<>>}
TypedGroups(typed)   == {Trim(g) : g \in ToSet(Labels(typed, {","}))} \ {<<>>}

Rendered(row, portal) ==
  /\ row.enabled
  /\ ValidSlug(row.slug)
  /\ ValidUpstream(row.upstream_url)
  /\ ValidHostname(row.external_hostname, portal) # NoText

Renderable(rows, portal) ==
  FoldLeft(LAMBDA list, row : IF Rendered(row, portal) THEN Append(list, row) ELSE list, <<>>, rows)

RenderApps(rows, portal) ==
  LET list == Renderable(rows, portal) IN
  [i \in DOMAIN list |-> [server_name |-> list[i].external_hostname, set |-> list[i].slug,
                          include |-> {"errors.inc", "decide.inc", "protected.inc"}]]

RenderBreakglass(rows, portal) ==
  LET list == Renderable(rows, portal) IN
  [i \in DOMAIN list |-> [server_name |-> list[i].external_hostname, set |-> <<>>,
                          include |-> {"upstream.inc"}]]

-----------------------------------------------------------------------------
(* The table's CHECK constraints: classes and repetitions, as written.     *)

\* '^[a-z0-9]+([seps][a-z0-9]+)*$'
CheckLabels(s, separators) ==
  /\ s # <<>>
  /\ \A i \in DOMAIN s :
       \/ s[i] \in Lowercase
       \/ s[i] \in separators /\ i > 1 /\ i < Len(s) /\ {s[i - 1], s[i + 1]} \subseteq Lowercase

\* '^https?://[^[:space:]]+$', of the text as typed.
CheckUpstream(url) == url.scheme \in {"http", "https"} /\ ~url.dressed

Checked(row) ==
  /\ CheckLabels(row.slug, {"-"})
  /\ CheckLabels(row.external_hostname, {".", "-"})
  /\ row.name # <<>>
  /\ CheckUpstream(row.upstream_url)
=============================================================================
