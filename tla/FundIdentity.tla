---------------------------- MODULE FundIdentity ----------------------------
(* identity.py: what an identifier stands for in one observed registry, and *)
(* what changed between two of them.  Pure operators.                       *)
(*                                                                          *)
(* A registry is the content of the three FONDREGISTRO tables of a period:  *)
(*   funds         the fund rows: key and the attributes that are compared  *)
(*   compartments  pairs <<fund key, compartment number>>                   *)
(*   classes       [fund, comp, class, isin], one row per share class       *)
(* A fund key is <<entity type, registry number>>; a portfolio owner is a   *)
(* compartment <<fund key, number>>.  An identifier is [form, is], where    *)
(* `is` is the value that form names.                                       *)
EXTENDS Naturals, FiniteSets

CONSTANTS
    ValidIsins,    \* ISINs whose check digit is right
    NoValue        \* None

Attributes == {"denominacion", "gestora", "depositario", "etf"}

EventOf == [denominacion |-> "name_changed", gestora |-> "manager_changed",
            depositario |-> "depositary_changed", etf |-> "etf_changed"]

-----------------------------------------------------------------------------
(* resolve: fail-closed, never by name.                                     *)

NotResolved(kind) == [kind |-> kind, owners |-> {}, class |-> NoValue, fund |-> NoValue]

ExactClass(row) ==
    [kind |-> "exact_share_class", owners |-> {<<row.fund, row.comp>>},
     class |-> <<row.fund, row.comp, row.class>>, fund |-> row.fund]

\* An ISIN stands for the one class that carries it.
ResolveIsin(isin, classes) ==
    LET hits == {r \in classes : r.isin = isin}
    IN  IF isin \notin ValidIsins THEN NotResolved("invalid_identifier")
        ELSE IF hits = {} THEN NotResolved("not_found")
        ELSE IF Cardinality(hits) > 1 THEN NotResolved("ambiguous")
        ELSE ExactClass(CHOOSE r \in hits : TRUE)

\* A key <<fund, compartment, class>>.
ResolveClass(key, classes) ==
    LET hits == {r \in classes : <<r.fund, r.comp, r.class>> = key}
    IN  IF hits = {} THEN NotResolved("not_found")
                     ELSE ExactClass(CHOOSE r \in hits : TRUE)

ResolveCompartment(owner, compartments) ==
    IF owner \notin compartments THEN NotResolved("not_found")
    ELSE [kind |-> "exact_compartment", owners |-> {owner},
          class |-> NoValue, fund |-> owner[1]]

\* A fund key stands for all its compartments.
ResolveFund(fund, compartments) ==
    LET own == {o \in compartments : o[1] = fund}
    IN  IF own = {} THEN NotResolved("not_found")
        ELSE [kind |-> "exact_fund", owners |-> own,
              class |-> NoValue, fund |-> fund]

Resolve(id, classes, compartments) ==
    CASE id.form = "isin"        -> ResolveIsin(id.is, classes)
      [] id.form = "class"       -> ResolveClass(id.is, classes)
      [] id.form = "compartment" -> ResolveCompartment(id.is, compartments)
      [] id.form = "fund"        -> ResolveFund(id.is, compartments)
      [] id.form = "number"      -> ResolveFund(<<"FI", id.is>>, compartments)
      [] OTHER                   -> NotResolved("not_found")

-----------------------------------------------------------------------------
(* diff_registry: events for the funds both registries hold.                *)

FundKeys(registry) == {f.key : f \in registry.funds}

Attribute(registry, key, name) ==
    (CHOOSE f \in registry.funds : f.key = key)[name]

Comps(registry, key) == {o[2] : o \in {c \in registry.compartments : c[1] = key}}

Classes(registry, key) == {r \in registry.classes : r.fund = key}

ClassKeys(registry, key) ==
    {<<r.comp, r.class>> : r \in Classes(registry, key)}

IsinOf(registry, key, class) ==
    (CHOOSE r \in Classes(registry, key) : <<r.comp, r.class>> = class).isin

\* An event names its subject: <<attribute, 0, 0>>, <<"compartment", c, 0>> or
\* <<"class", c, k>>; what came or went is that subject, and has no values.
Event(kind, key, subject, old, new) ==
    [kind |-> kind, fund |-> key, subject |-> subject, old |-> old, new |-> new]

AttributeEvents(old, new, key) ==
    {Event(EventOf[a], key, <<a, 0, 0>>, Attribute(old, key, a), Attribute(new, key, a)) :
        a \in {b \in Attributes : Attribute(old, key, b) # Attribute(new, key, b)}}

CompartmentEvent(kind, key, c) ==
    Event(kind, key, <<"compartment", c, 0>>, NoValue, NoValue)

CompartmentEvents(old, new, key) ==
    {CompartmentEvent("compartment_added", key, c) :
        c \in Comps(new, key) \ Comps(old, key)}
    \cup
    {CompartmentEvent("compartment_removed", key, c) :
        c \in Comps(old, key) \ Comps(new, key)}

ClassEvent(kind, key, c, old, new) ==
    Event(kind, key, <<"class", c[1], c[2]>>, old, new)

\* Mutant: classes are compared in the compartments both months have.
ClassEventsKept(old, new, key) ==
    LET kept == Comps(old, key) \cap Comps(new, key)
    IN  {ClassEvent("share_class_added", key, c, NoValue, NoValue) :
            c \in {d \in ClassKeys(new, key) \ ClassKeys(old, key) : d[1] \in kept}}
        \cup
        {ClassEvent("share_class_removed", key, c, NoValue, NoValue) :
            c \in {d \in ClassKeys(old, key) \ ClassKeys(new, key) : d[1] \in kept}}

\* The classes of a compartment that came or went count as added or removed.
ClassEvents(old, new, key) ==
    {ClassEvent("share_class_added", key, c, NoValue, NoValue) :
        c \in ClassKeys(new, key) \ ClassKeys(old, key)}
    \cup
    {ClassEvent("share_class_removed", key, c, NoValue, NoValue) :
        c \in ClassKeys(old, key) \ ClassKeys(new, key)}

IsinEvents(old, new, key) ==
    {ClassEvent("isin_changed", key, c, IsinOf(old, key, c), IsinOf(new, key, c)) :
        c \in {d \in ClassKeys(old, key) \cap ClassKeys(new, key) :
                  IsinOf(old, key, d) # IsinOf(new, key, d)}}

Events(old, new) ==
    UNION {AttributeEvents(old, new, k) \cup CompartmentEvents(old, new, k)
               \cup ClassEvents(old, new, k) \cup IsinEvents(old, new, k) :
           k \in FundKeys(old) \cap FundKeys(new)}
=============================================================================
