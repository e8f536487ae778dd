--------------------------- MODULE UpstreamConfig ---------------------------
(***************************************************************************)
(* Parsing of the upstream rules and routing of query names to a rule:      *)
(* UpstreamConfig::parse_with_mode, split_config_line and group_for of      *)
(* src/src/client/upstream_config.rs, over the lines main.rs collects.      *)
(*                                                                         *)
(* A domain is the sequence of its labels, leftmost first.  A rule's domain *)
(* is what lies between two slashes: <<>> when nothing does, and ending in  *)
(* an empty label when it is written with a trailing dot.  A config line is *)
(* abstracted to what split_config_line distinguishes.                      *)
(***************************************************************************)
EXTENDS Naturals, Sequences, FiniteSets, Functions, UpstreamUrl

CONSTANTS
  Names,      \* the names queries ask for
  Label,      \* labels
  Lower,      \* Lower[l]: to_ascii_lowercase of a label
  Addresses   \* upstream strings

Domain == Seq(Label)

\* skip: blank or a comment; bracket: starts with "[/"; closed: has "/]".  The
\* text between the brackets splits into at least one domain.
Line ==
  { l \in [skip : BOOLEAN, bracket : BOOLEAN, closed : BOOLEAN,
           hosts : Seq(Domain), ups : Seq(Addresses)] :
      /\ ~l.bracket => l.hosts = <<>>
      /\ l.bracket /\ l.closed => l.hosts # <<>> }

ASSUME ConfigAssumption ==
  /\ Names \subseteq Domain
  /\ Lower \in [Label -> Label]
  /\ Addresses \subseteq [scheme : STRING, rest : Seq(STRING)]

Lowered(d) == [i \in DOMAIN d |-> Lower[d[i]]]

\* split_config_line: whether the line is well formed, and its domains.  A
\* line without a bracket is one default upstream as it stands.
WellFormed(l) ==
  ~l.bracket \/ (l.closed /\ l.ups # <<>> /\ \A i \in DOMAIN l.hosts : l.hosts[i] # <<>>)

\* Mutant of RuleDomains: the case of the rule is kept.
RuleDomainsAsWritten(l) == IF l.bracket THEN l.hosts ELSE <<>>

RuleDomains(l) == IF l.bracket THEN [i \in DOMAIN l.hosts |-> Lowered(l.hosts[i])] ELSE <<>>

VARIABLES
  lines,              \* the lines being parsed
  phase,              \* "start", "parse", "serve" or "rejected"
  idx,                \* the line being parsed
  upos,               \* the upstream of that line being parsed
  upstream_index,     \* the addresses an upstream has been built for
  domain_upstreams,   \* the rules: a set of [domain, group]
  default_upstreams,
  errors,             \* the lines errors were found on, in order
  looking,            \* a lookup is in the loop of group_for
  name,               \* `lower`: the lowercased name looked up last
  at,                 \* position in name where `suffix` starts
  target              \* the group the last lookup chose

config == <<lines, phase, idx, upos, upstream_index, domain_upstreams, default_upstreams,
            errors, looking, name, at, target>>

Registered == { r.domain : r \in domain_upstreams }

GroupOf(d) == (CHOOSE r \in domain_upstreams : r.domain = d).group

----------------------------------------------------------------------------
(* parse_with_mode *)

Current == lines[idx]

NextLine ==
  /\ idx' = idx + 1
  /\ upos' = 1

LineDone ==
  /\ NextLine
  /\ UNCHANGED <<lines, phase, upstream_index, domain_upstreams, default_upstreams,
                 looking, name, at, target>>

SkipLine ==
  /\ phase = "parse" /\ idx <= Len(lines)
  /\ Current.skip
  /\ LineDone
  /\ UNCHANGED errors

BadLine ==
  /\ phase = "parse" /\ idx <= Len(lines)
  /\ ~Current.skip /\ ~WellFormed(Current)
  /\ errors' = Append(errors, idx)
  /\ LineDone

EndOfLine ==
  /\ phase = "parse" /\ idx <= Len(lines)
  /\ ~Current.skip /\ WellFormed(Current)
  /\ upos > Len(Current.ups)
  /\ LineDone
  /\ UNCHANGED errors

\* How often a rule names the domain d.
Mentions(l, d) == Cardinality({ i \in DOMAIN RuleDomains(l) : RuleDomains(l)[i] = d })

Pushed(g, u, n) == g \o [i \in 1..n |-> u]

OldGroup(d) == IF d \in Registered THEN GroupOf(d) ELSE <<>>

\* The rules after u is pushed to every domain the line names.
Extended(l, u) ==
  LET ds == { RuleDomains(l)[i] : i \in DOMAIN RuleDomains(l) } IN
  { r \in domain_upstreams : r.domain \notin ds }
    \cup { [domain |-> d, group |-> Pushed(OldGroup(d), u, Mentions(l, d))] : d \in ds }

\* An upstream is built the first time its address is met and shared after.
ParseUpstream ==
  LET u == Current.ups[upos] IN
  /\ phase = "parse" /\ idx <= Len(lines)
  /\ ~Current.skip /\ WellFormed(Current)
  /\ upos <= Len(Current.ups)
  /\ Accepted(u)
  /\ upstream_index' = upstream_index \cup {u}
  /\ IF RuleDomains(Current) = <<>>
     THEN /\ default_upstreams' = Append(default_upstreams, u)
          /\ UNCHANGED domain_upstreams
     ELSE /\ domain_upstreams' = Extended(Current, u)
          /\ UNCHANGED default_upstreams
  /\ upos' = upos + 1
  /\ UNCHANGED <<lines, phase, idx, errors, looking, name, at, target>>

\* Mutant of BadUpstream: the rest of the line is skipped, unreported.
BadUpstreamUnreported ==
  /\ phase = "parse" /\ idx <= Len(lines)
  /\ ~Current.skip /\ WellFormed(Current)
  /\ upos <= Len(Current.ups)
  /\ ~Accepted(Current.ups[upos])
  /\ LineDone
  /\ UNCHANGED errors

BadUpstream ==
  /\ phase = "parse" /\ idx <= Len(lines)
  /\ ~Current.skip /\ WellFormed(Current)
  /\ upos <= Len(Current.ups)
  /\ ~Accepted(Current.ups[upos])
  /\ errors' = Append(errors, idx)
  /\ upos' = upos + 1
  /\ UNCHANGED <<lines, phase, idx, upstream_index, domain_upstreams, default_upstreams,
                 looking, name, at, target>>

ParseEnd ==
  /\ phase = "parse" /\ idx > Len(lines)
  /\ phase' = IF errors = <<>> THEN "serve" ELSE "rejected"
  /\ UNCHANGED <<lines, idx, upos, upstream_index, domain_upstreams, default_upstreams,
                 errors, looking, name, at, target>>

----------------------------------------------------------------------------
(* group_for: the rules do not change any more, so lookups are independent  *)
(* of each other and one at a time shows them all.                          *)

Suffix == SubSeq(name, at, Len(name))

Unmatched == [kind |-> "default", domain |-> <<>>]
Rule(d)   == [kind |-> "rule", domain |-> d]

\* A query for n; without any rule the default group is taken at once.
LookupBegin(n) ==
  /\ phase = "serve" /\ ~looking
  /\ name' = Lowered(n)
  /\ at' = 1
  /\ looking' = (domain_upstreams # {})
  /\ target' = Unmatched
  /\ UNCHANGED <<lines, phase, idx, upos, upstream_index, domain_upstreams,
                 default_upstreams, errors>>

LookupHit ==
  /\ looking
  /\ Suffix \in Registered
  /\ target' = Rule(Suffix)
  /\ looking' = FALSE
  /\ UNCHANGED <<lines, phase, idx, upos, upstream_index, domain_upstreams,
                 default_upstreams, errors, name, at>>

\* Mutant of LookupStrip: the first label is stripped without a lookup.
LookupStripEager ==
  /\ looking
  /\ at < Len(name)
  /\ at' = at + 1
  /\ UNCHANGED <<lines, phase, idx, upos, upstream_index, domain_upstreams,
                 default_upstreams, errors, looking, name, target>>

LookupStrip ==
  /\ looking
  /\ Suffix \notin Registered
  /\ at < Len(name)
  /\ at' = at + 1
  /\ UNCHANGED <<lines, phase, idx, upos, upstream_index, domain_upstreams,
                 default_upstreams, errors, looking, name, target>>

LookupFail ==
  /\ looking
  /\ Suffix \notin Registered
  /\ at >= Len(name)
  /\ looking' = FALSE
  /\ UNCHANGED <<lines, phase, idx, upos, upstream_index, domain_upstreams,
                 default_upstreams, errors, name, at, target>>

----------------------------------------------------------------------------
\* Nothing is parsed or looked up yet.
Fresh ==
  /\ idx = 1
  /\ upos = 1
  /\ upstream_index = {}
  /\ domain_upstreams = {}
  /\ default_upstreams = <<>>
  /\ errors = <<>>
  /\ looking = FALSE
  /\ name = <<>>
  /\ at = 1
  /\ target = Unmatched

Parse == SkipLine \/ BadLine \/ EndOfLine \/ ParseUpstream \/ BadUpstream \/ ParseEnd

Lookup ==
  \/ \E n \in Names : LookupBegin(n)
  \/ LookupHit
  \/ LookupStrip
  \/ LookupFail

----------------------------------------------------------------------------
(* Properties *)

(***************************************************************************)
(* A lookup ends in the rule for the longest suffix of the lowercased name *)
(* that has one, and in the default group only if no suffix has one        *)
(* ("preferring the most specific matching domain rule",                   *)
(* upstream_config.rs:194-197).                                            *)
(***************************************************************************)
MostSpecificRule ==
  (phase = "serve" /\ ~looking) =>
    LET Matching == { i \in 1..Len(name) : SubSeq(name, i, Len(name)) \in Registered } IN
    /\ target.kind = "default" => Matching = {}
    /\ target.kind = "rule" =>
         \E i \in Matching : /\ target.domain = SubSeq(name, i, Len(name))
                             /\ \A j \in Matching : i <= j

(***************************************************************************)
(* A file is rejected exactly when some line of it is malformed or names   *)
(* an upstream that does not parse, and then every such line is reported   *)
(* ("Returns every parse error found", upstream_config.rs:114-118).        *)
(***************************************************************************)
AllErrorsReported ==
  phase \in {"serve", "rejected"} =>
    LET Faulty == { i \in DOMAIN lines :
                      /\ ~lines[i].skip
                      /\ \/ ~WellFormed(lines[i])
                         \/ \E j \in DOMAIN lines[i].ups : ~Accepted(lines[i].ups[j]) }
    IN  /\ { errors[i] : i \in DOMAIN errors } = Faulty
        /\ phase = "serve" <=> Faulty = {}

\* The lists of s, one after the other.
Flattened(s) ==
  LET upto[n \in 0..Len(s)] == IF n = 0 THEN <<>> ELSE upto[n - 1] \o s[n]
  IN  upto[Len(s)]

\* The upstreams a line contributes to the group of domain d.
Contribution(l, d) ==
  IF l.skip THEN <<>>
  ELSE Flattened([i \in DOMAIN l.ups |-> Pushed(<<>>, l.ups[i],
         Cardinality({ j \in DOMAIN l.hosts : Lowered(l.hosts[j]) = d }))])

(***************************************************************************)
(* The group of a domain lists, in the order of the file, the upstreams of *)
(* every rule that names the domain in whatever case, and the default      *)
(* group those of the lines without a domain: rules for one domain on      *)
(* several lines add up (`entry(..).or_default().push(..)`).               *)
(***************************************************************************)
GroupsFollowTheFile ==
  phase = "serve" =>
    /\ \A r \in domain_upstreams :
         r.group = Flattened([i \in DOMAIN lines |-> Contribution(lines[i], r.domain)])
    /\ \A i \in DOMAIN lines : \A h \in DOMAIN lines[i].hosts :
         ~lines[i].skip => Lowered(lines[i].hosts[h]) \in Registered
    /\ default_upstreams = Flattened([i \in DOMAIN lines |->
         IF lines[i].skip \/ lines[i].bracket THEN <<>> ELSE lines[i].ups])
=============================================================================
