----------------------------- MODULE TTLResolver -----------------------------
(***************************************************************************)
(* How long the entry of a set is to live in the hot tier: TTLResolver and *)
(* the conversion before it (src/tiercache/manager.py 22-45, 129), and how *)
(* the configuration makes the rules (src/tiercache/config.py 128-150).    *)
(*                                                                         *)
(* A rule has the tags a call must have and what it gives for hot: a time, *)
(* none, or nothing since it does not name the tier.  A tag is a name with *)
(* its value.  A time in hours is counted in half seconds, which is enough *)
(* for the conversion to seconds to lose something.                        *)
(***************************************************************************)
EXTENDS Naturals, Sequences

CONSTANTS Rules,        \* the rules in the order of the configuration
          Unnamed,      \* the rule does not name the tier
          DefaultTTL, NoTTL

(* int(ttl_hours * 3600) *)
Seconds(ttl_hours) == IF ttl_hours = NoTTL THEN NoTTL ELSE ttl_hours \div 2

(* The rule as the configuration leaves it: a tier it does not name stays  *)
(* out, and one it names without a time is None.                           *)
RuleTTL(rule) == IF rule.hot = Unnamed THEN Unnamed ELSE Seconds(rule.hot)

(* Mutant: the last rule that matches decides. *)
ResolveLast(ttl_seconds, tags) ==
    LET From[i \in 0 .. Len(Rules)] ==
            IF i = 0 THEN DefaultTTL
            ELSE IF Rules[i].tag \subseteq tags /\ RuleTTL(Rules[i]) # Unnamed
                 THEN RuleTTL(Rules[i])
            ELSE From[i - 1]
    IN  IF ttl_seconds # NoTTL THEN ttl_seconds
        ELSE IF tags = {} THEN DefaultTTL
        ELSE From[Len(Rules)]

Resolve(ttl_seconds, tags) ==
    LET From[i \in 1 .. Len(Rules) + 1] ==
            IF i > Len(Rules) THEN DefaultTTL
            ELSE IF Rules[i].tag \subseteq tags /\ RuleTTL(Rules[i]) # Unnamed
                 THEN RuleTTL(Rules[i])
            ELSE From[i + 1]
    IN  IF ttl_seconds # NoTTL THEN ttl_seconds
        ELSE IF tags = {} THEN DefaultTTL
        ELSE From[1]
-----------------------------------------------------------------------------
(* What the documentation says: the time given with the call, or else the  *)
(* first rule for the tags that says something of the tier, or else the    *)
(* default of the tier.                                                    *)
Speaks(rule, tags) == tags # {} /\ rule.tag \subseteq tags /\ rule.hot # Unnamed

Decisive(tags) ==
    {i \in DOMAIN Rules : /\ Speaks(Rules[i], tags)
                          /\ \A j \in 1 .. i - 1 : ~Speaks(Rules[j], tags)}

(* In half seconds, as it is given; no time stands for the default. *)
Documented(call) ==
    IF call.ttl_hours # NoTTL THEN {call.ttl_hours}
    ELSE IF Decisive(call.tags) # {} THEN {Rules[i].hot : i \in Decisive(call.tags)}
    ELSE {NoTTL}

(* An entry with this ttl lasts that time to the second, and one with the  *)
(* ttl 0 for ever (ram.py 33, tests/test_manager.py 79).  A time above 0   *)
(* and below one second is left open: the code makes it for ever.          *)
Lasts(ttl, time) ==
    IF time = NoTTL THEN ttl = DefaultTTL
    ELSE IF time = 0 THEN ttl = 0
    ELSE time >= 2 => 2 * ttl <= time /\ time < 2 * ttl + 2
=============================================================================
