-------------------------------- MODULE Domains --------------------------------
(* What the generated headers document for the members of commands and events *)
(* (stm32wb-catalog's domain.rs): the values or flags of a member over a      *)
(* range of releases, which of them a profile's stack accepts, and the        *)
(* domains a catalog may hold.                                                *)
(*                                                                            *)
(* The label of an item states a condition:                                   *)
(*   none            none, or a note                                          *)
(*   platform        only, or not, on a platform: `of` are its profiles, or   *)
(*                   those of the other platform                              *)
(*   profiles        only for the profiles `of`                               *)
(*   otherwise       where no item for some profiles is accepted              *)
(*   unsupported     nowhere                                                  *)
(*   uninterpretable one the catalog cannot tell                              *)
(* and may end with the length of the data at its value.                      *)
EXTENDS WireValues, Integers

Conditions ==
  [kind : {"none", "otherwise", "unsupported", "uninterpretable"}]
    \cup [kind : {"platform", "profiles"}, of : SUBSET STRING]

DomainItems ==
  [first : Int, last : Int, condition : Conditions, length : Nat \cup {None}]

(* A domain is of one member, on one side of the command.                     *)
MemberDomains ==
  [member : STRING, side : {"params", "returns"}, first : Nat, last : Nat,
   kind : {"values", "flags"}, items : Seq(DomainItems), unit : Nat \cup {None}]

------------------------------------------------------------------------------
(* Domain::items: a list with a condition the catalog cannot tell is None.    *)
Applies(item, profile) ==
  \/ item.condition.kind = "none"
  \/ item.condition.kind \in {"platform", "profiles"} /\ profile \in item.condition.of

Accepted(domain, profile) ==
  LET Restricts(item) == item.condition.kind = "profiles" /\ Applies(item, profile)
      restricted == \E i \in DOMAIN domain.items : Restricts(domain.items[i])
      Taken(item) == \/ Applies(item, profile)
                     \/ item.condition.kind = "otherwise" /\ ~restricted
  IN  IF \E i \in DOMAIN domain.items : domain.items[i].condition.kind = "uninterpretable"
      THEN None
      ELSE SelectSeq(domain.items, Taken)

(* The lengths of single values; the first item of a value counts.            *)
LengthsOf(items) ==
  LET Long(i) == items[i].first = items[i].last /\ items[i].length # None
      long == {i \in DOMAIN items : Long(i)}
  IN  [v \in {items[i].first : i \in long} |->
         items[Min({i \in long : items[i].first = v})].length]

(* ranges, lengths and bits of the accepted items.                            *)
DocumentsFor(domain, profile) ==
  LET items == Accepted(domain, profile)
  IN  IF items = None THEN [kind |-> "unreadable"]
      ELSE IF domain.kind = "values"
      THEN [kind |-> "values", unit |-> domain.unit, lengths |-> LengthsOf(items),
            ranges |-> {<<item.first, item.last>> : item \in Range(items)}]
      ELSE [kind |-> "flags",
            bits |-> UNION {FlagsOf(item.first) : item \in Range(items)}]

------------------------------------------------------------------------------
(* scalar_range, and what an unsigned member is documented with: its values   *)
(* or the two's complement reading of them.  Of eight bytes only an i64 is    *)
(* documented.                                                                *)
ScalarRange(width, signed) ==
  LET half == Power(width) \div 2
  IN  IF signed THEN <<-half, half - 1>>
      ELSE IF width = 8 THEN <<0, half - 1>>
      ELSE <<-half, 2 * half - 1>>

(* The values of a member, or of each element of an array of integers; up to  *)
(* eight bytes are one integer.  None for other members.                      *)
HeldBy(m) ==
  IF m.kind \in {"scalar", "optional"}
  THEN ScalarRange(m.width, m.kind = "scalar" /\ m.signed)
  ELSE IF m.kind = "array" /\ m.element = [width |-> 1] /\ m.len \in 1..8
  THEN ScalarRange(IF m.len <= 4 THEN m.len ELSE 8, FALSE)
  ELSE IF m.kind \in {"array", "counted"} /\ "width" \in DOMAIN m.element
  THEN ScalarRange(m.element.width, FALSE)
  ELSE None

SingleBit(item) ==
  /\ item.first = item.last
  /\ item.first = 0 \/ \E b \in FlagBits : item.first = 2^b

(* Items in order, each once; that of labels is left out.                     *)
Ascending(i, j) ==
  /\ i # j
  /\ i.first < j.first \/ (i.first = j.first /\ i.last <= j.last)

(* validate_domain, for each of the profiles.                                 *)
ValidDomain(members, domain, profiles) ==
  LET named == {p \in DOMAIN members : members[p].name = domain.member}
      items == domain.items
  IN  /\ named # {}
      /\ LET held == HeldBy(members[Min(named)])
         IN  /\ held # None
             /\ \A i \in DOMAIN items : held[1] <= items[i].first /\ items[i].last <= held[2]
      /\ items # <<>>
      /\ domain.kind = "flags" => \A i \in DOMAIN items : SingleBit(items[i])
      /\ \A i \in 1..(Len(items) - 1) : Ascending(items[i], items[i + 1])
      /\ domain.unit # 0
      /\ \A p \in profiles : Accepted(domain, p) # None

(* validate_domains: no two of a member overlap, and each fits the layout of  *)
(* every release it covers, of which `entries` are the definitions.  Layouts  *)
(* that are not known are not compared.                                       *)
ValidDomains(domains, entries, profiles) ==
  \A d \in domains :
    /\ \A e \in domains \ {d} :
         e.member = d.member /\ e.side = d.side => e.last < d.first \/ d.last < e.first
    /\ \A v \in DOMAIN entries \cap d.first..d.last :
         /\ entries[v] # None
         /\ entries[v].resolved => ValidDomain(entries[v][d.side], d, profiles)
==============================================================================
