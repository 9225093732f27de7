----------------------------- MODULE ResultParsing -----------------------------
(***************************************************************************)
(* How an answer becomes fields: the line scanners of parser/domain.go,    *)
(* ip.go and asn.go, which stop where the one Read of tcpQuery stopped,    *)
(* inside a line as well as between two; the RDAP entities of              *)
(* rdap/parser.go; and result.go, which gives both one form.  A line is a  *)
(* field and a value, an entity its roles and what its vCard says; the     *)
(* regular expressions that find them are left out.                        *)
(***************************************************************************)
EXTENDS Naturals, SequencesExt

CONSTANTS
  MaxLines,      \* bound: lines read of a WHOIS answer
  MaxEntities    \* bound: entities read of an RDAP answer

ASSUME ParsingAssumption == MaxLines \in Nat /\ MaxEntities \in Nat

VARIABLES
  form,      \* the parser at work: "domain", "ip", "asn", or "rdap"
  fields,    \* what it has found in whole lines: field -> sequence of values
  cut,       \* the line that the Read ended in and the value as cut, or NoLine
  read,      \* whole lines or entities read
  given      \* history variable: a registrant has given an organisation

parseVars == <<form, fields, cut, read, given>>

NoLine == [kind |-> "none", value |-> "none"]

\* Values: two different ones, one of isGenericOrg's, and a date that does not parse.
\* A value that is cut short is another one, be it one of these or the same.
Values == {"one", "two", "generic", "unparsable"}

\* The fields of an answer, by how the scanner treats them.
First(f) == CASE f = "domain" -> {"registrant", "registrar", "organization", "dnssec"}
              [] f = "ip" -> {"network", "abuseEmail", "abusePhone"}
              [] f = "asn" -> {"asn", "country"}
Dates(f) == CASE f = "domain" -> {"created", "expiry"} [] f = "ip" -> {"created"} [] f = "asn" -> {}
Organizations(f) == IF f = "domain" THEN {} ELSE {"organization"}
Lists(f) == CASE f = "domain" -> {"nameservers", "status"} [] f = "ip" -> {} [] f = "asn" -> {"descriptions", "prefixes"}

RDAPFields == {"registrant", "organization", "email", "registrar", "registrarID"}
FieldsOf(f) ==
  IF f = "rdap" THEN RDAPFields ELSE First(f) \cup Dates(f) \cup Organizations(f) \cup Lists(f)

Empty(v) == v \in {<<>>, <<"generic">>}

\* The kinds of lines; an as-name is the organisation, too.
Lines(f) == FieldsOf(f) \cup (IF f = "asn" THEN {"asName"} ELSE {})
FieldOf(kind) == IF kind = "asName" THEN "organization" ELSE kind
-----------------------------------------------------------------------------
\* A later line overwrites.
MutantFound(kind, value) ==
  LET known == fields[FieldOf(kind)] IN
  CASE kind \in First(form) -> <<value>>
    [] kind = "asName" -> IF known = <<>> THEN <<value>> ELSE known
    [] kind \in Dates(form) -> IF known = <<>> /\ value # "unparsable" THEN <<value>> ELSE known
    [] kind \in Organizations(form) -> IF Empty(known) /\ value # "generic" THEN <<value>> ELSE known
    [] kind \in Lists(form) -> IF value \in Range(known) THEN known ELSE Append(known, value)

\* ParseDomain, ParseIP, ParseASN, at a line: the first value counts, the first date that
\* parses, the first organisation that is not generic, be it over an as-name; lists collect.
Found(kind, value) ==
  LET known == fields[FieldOf(kind)] IN
  CASE kind \in First(form) \cup {"asName"} -> IF known = <<>> THEN <<value>> ELSE known
    [] kind \in Dates(form) -> IF known = <<>> /\ value # "unparsable" THEN <<value>> ELSE known
    [] kind \in Organizations(form) -> IF Empty(known) /\ value # "generic" THEN <<value>> ELSE known
    [] kind \in Lists(form) -> IF value \in Range(known) THEN known ELSE Append(known, value)

\* What the answer says if the Read ends here.
Filled(kind, value) == [fields EXCEPT ![FieldOf(kind)] = Found(kind, value)]
Says == IF cut = NoLine THEN fields ELSE Filled(cut.kind, cut.value)

\* ParseIP joins the abuse contacts when the lines are through.
AbuseContact(says) == says["abuseEmail"] \o says["abusePhone"]

\* The next line, or the rest of the one that was cut.
Line(kind, value) ==
  /\ form # "rdap" /\ read < MaxLines
  /\ cut = NoLine \/ cut.kind = kind
  /\ fields' = Filled(kind, value)
  /\ cut' = NoLine
  /\ read' = read + 1
  /\ UNCHANGED <<form, given>>

\* tcpQuery's Read ends inside a line: its field is known and the beginning of its value,
\* of which a longer Read has more.
CutLine(kind, value) ==
  /\ form # "rdap" /\ read < MaxLines
  /\ cut = NoLine \/ cut.kind = kind
  /\ cut' = [kind |-> kind, value |-> value]
  /\ UNCHANGED <<form, fields, read, given>>

\* The rest of the line makes it another one: the patterns of a number and of a country
\* admit nothing after the value.
Mismatch ==
  /\ form \in {"ip", "asn"} /\ read < MaxLines
  /\ cut.kind \in First(form)
  /\ cut' = NoLine
  /\ read' = read + 1
  /\ UNCHANGED <<form, fields, given>>

\* parseEntity, with the entities that are nested in one after it: what a registrant
\* and a registrar say, and an organisation of anyone but a registrar.  A value is the
\* entity it comes from.
Keep(known, from) == IF known = <<>> THEN <<from>> ELSE known

parseEntity(roles, has) ==
  LET e == [roles |-> roles, at |-> read + 1]
      registrant == "registrant" \in roles
      registrar == "registrar" \in roles
  IN
  /\ form = "rdap" /\ read < MaxEntities
  /\ fields' = [field \in RDAPFields |->
       CASE field = "registrant" /\ registrant /\ "name" \in has -> Keep(fields[field], e)
         [] field = "email" /\ registrant /\ "email" \in has -> Keep(fields[field], e)
         [] field = "organization" /\ (registrant \/ ~registrar) /\ "org" \in has ->
              Keep(fields[field], e)
         [] field = "registrar" /\ registrar /\ has \cap {"name", "org"} # {} ->
              Keep(fields[field], e)
         [] field = "registrarID" /\ registrar /\ "id" \in has -> <<e>>
         [] OTHER -> fields[field]]
  /\ given' = (given \/ (registrant /\ "org" \in has))
  /\ read' = read + 1
  /\ UNCHANGED <<form, cut>>

\* The next answer is parsed.
NextAnswer ==
  /\ form' \in {"domain", "ip", "asn", "rdap"}
  /\ fields' = [f \in FieldsOf(form') |-> <<>>]
  /\ cut' = NoLine /\ read' = 0 /\ given' = FALSE

ParseInit ==
  /\ form = "domain" /\ fields = [f \in FieldsOf(form) |-> <<>>]
  /\ cut = NoLine /\ read = 0 /\ given = FALSE

ParseNext ==
  \/ NextAnswer \/ Mismatch
  \/ \E kind \in Lines(form), value \in Values : Line(kind, value) \/ CutLine(kind, value)
  \/ \E roles \in SUBSET {"registrant", "registrar"}, has \in SUBSET {"name", "org", "email", "id"} :
       parseEntity(roles, has)

ParseSpec == ParseInit /\ [][ParseNext]_parseVars
-----------------------------------------------------------------------------
\* result.go: the field of the unified result each field of an answer goes to.
Unified ==
  [registrant |-> "registrant_name", organization |-> "registrant_org",
   email |-> "registrant_email", country |-> "registrant_country",
   registrar |-> "registrar", registrarID |-> "registrar_id",
   created |-> "created_date", expiry |-> "expiry_date", nameservers |-> "nameservers",
   status |-> "status", dnssec |-> "dnssec", network |-> "network_name",
   asn |-> "asn_number", descriptions |-> "asn_name"]

\* What it has no field for.
Dropped == {"abuseEmail", "abusePhone", "prefixes"}

ParseTypeOK ==
  /\ form \in {"domain", "ip", "asn", "rdap"}
  /\ DOMAIN fields = FieldsOf(form) /\ DOMAIN fields \subseteq DOMAIN Unified \cup Dropped
  /\ cut = NoLine \/ (cut.kind \in Lines(form) /\ cut.value \in Values)
  /\ read \in 0..(MaxLines + MaxEntities) /\ given \in BOOLEAN

\* A WHOIS answer of which only the beginning was read says less than the whole one, except
\* in one value: what a longer Read finds begins with what a shorter one has found, but for
\* the last value of the field whose line was cut and a generic organisation; and it names
\* the abuse contacts, though not in their order (ParseDomain, ParseIP, ParseASN).
TruncatedSaysLess ==
  [][form # "rdap" /\ (read' > read \/ cut' # NoLine) =>
       \E g \in DOMAIN fields :
         LET sure == [Says EXCEPT ![g] = fields[g]] IN
         /\ \A f \in DOMAIN fields :
              \/ IsPrefix(sure[f], Says'[f])
              \/ f \in Organizations(form) /\ sure[f] = <<"generic">>
         /\ form = "ip" => Range(AbuseContact(sure)) \subseteq Range(AbuseContact(Says'))]_parseVars

\* rdap/parser.go:279, "Fallback: use org name if no registrant found": the registrant's
\* organisation is another entity's only as long as no registrant gives one.
FallbackOnly ==
  form = "rdap" /\ given => "registrant" \in fields["organization"][1].roles
=============================================================================
