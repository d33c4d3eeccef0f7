--------------------------- MODULE MCZoneRecords ----------------------------
(* Small instances of ZoneRecords for TLC. *)
EXTENDS ZoneRecords, TLC

\* "W" is "w" in upper case, "_" is no label.  Two labels fill a name.
MCLabels == {"w", "W", "v", "_", "z"}
MCLower == [l \in MCLabels |-> IF l = "W" THEN "w" ELSE l]
MCValidLabels == {"w", "v", "z"}

\* "T" is "t" in upper case, "t." is "t" with a final dot, "?" is a value of no
\* type but TXT.
MCTexts == {"t", "T", "t.", "u", "?"}
MCFold == [v \in MCTexts |-> IF v = "T" THEN "t" ELSE v]
MCTarget == [v \in MCTexts |-> IF v \in {"T", "t."} THEN "t" ELSE v]
MCWellFormed ==
  [t \in Types |-> IF t = "TXT" THEN MCTexts ELSE MCTexts \ {"?"}]

MCNamespaces == {"a", "b"}
\* Two records of the same name in different namespaces.
id1 == [ns |-> "a", name |-> 1]
id2 == [ns |-> "b", name |-> 1]

MCOneId == {id1}
MCTwoIds == {id1, id2}

Relative(labels) == [labels |-> labels, rooted |-> FALSE]
Rooted(labels) == [labels |-> labels, rooted |-> TRUE]

Inline(name, type, ttl, values) ==
  [name |-> name, type |-> type, ttl |-> ttl, values |-> values]
Rec(name, type, ttl, values) ==
  [name |-> name, type |-> type, ttl |-> ttl, values |-> values, ours |-> TRUE]

atW == Relative(<<"w">>)

\* Records that agree and disagree at w, and one whose name is too long with its
\* zone.
MCRecords ==
  {Rec(atW, "A", 60, <<"t">>),
   Rec(Relative(<<"W">>), "A", 60, <<"u", "t", "T">>),
   Rec(Rooted(<<"w", "z">>), "CNAME", 0, <<"t", "t.">>),
   Rec(Relative(<<"v", "w">>), "A", 0, <<"t">>)}

ZoneSpec(policy, allowed, records) ==
  [suffix |-> <<"z">>, name |-> 1, ttl |-> 0, policy |-> policy,
   allowed |-> allowed, records |-> records]

\* Zones of either policy that admit all or one of the tenants, with and without
\* records of their own at the tenants' names; an invalid record set; an
\* unusable suffix.
MCZones ==
  {ZoneSpec("", {}, <<>>),
   ZoneSpec("Forward", {}, <<Inline(atW, "A", 0, <<"t">>)>>),
   ZoneSpec("", {"b"}, <<Inline(atW, "CNAME", 0, <<"u">>), Inline(Relative(<<>>), "TXT", 0, <<"T">>)>>),
   ZoneSpec("Forward", {"a"}, <<Inline(atW, "A", 0, <<"t", "?">>)>>),
   [ZoneSpec("", {}, <<>>) EXCEPT !.suffix = <<"_">>]}

\* A tenant's CNAME at "@" or a record that meets the zone's own CNAME, and edits
\* that bring that conflict about, lift it or take the zone away.
SettleRecords ==
  {Rec(Relative(<<>>), "CNAME", 60, <<"t">>), Rec(atW, "A", 60, <<"t">>)}
SettleZones ==
  {ZoneSpec("", {}, <<>>),
   ZoneSpec("", {"a"}, <<Inline(atW, "CNAME", 0, <<"T">>)>>)}

=============================================================================
