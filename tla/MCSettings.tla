----------------------------- MODULE MCSettings -----------------------------
EXTENDS SettingsProps, TLC

CONSTANTS s1, s2
MCSessions == {s1, s2}
Symmetry == Permutations(MCSessions)

(* Databases 1 and 2 are on one host; 3 is not in the configuration.       *)
All == [wild |-> 2, ids |-> {1, 2, 3}]
Host == [wild |-> 1, ids |-> {1, 2}]
Target(d) == [wild |-> 0, ids |-> {d}]

Set(name, target, precedence, value) ==
    [name |-> name, target |-> target, precedence |-> precedence, value |-> value]

MCOffsetOf(n) ==
    CASE n = "pz:allow" -> 1 [] n = "pz:name" -> 2 [] n = "pz:authentication" -> 3
      [] n \in {"pz:limitmap:title", "pz:limitmap:date"} -> 4

MCSettingFiles ==
    { << Set("pz:name", All, 0, 1), Set("pz:authentication", All, 0, 1),
         Set("pz:limitmap:title", All, 0, 1) >>,
      << Set("pz:authentication", Target(1), 0, 2), Set("pz:limitmap:date", Target(2), 0, 2),
         Set("pz:limitmap:title", Host, 0, 2), Set("pz:name", Host, 1, 2) >>,
      << Set("pz:authentication", Host, 0, 3), Set("pz:limitmap:date", Target(2), 0, 3),
         Set("pz:limitmap:title", Target(1), 1, 3), Set("pz:name", Target(2), 0, 3),
         Set("pz:limitmap:date", Target(1), 1, 4) >> }

MCDefaultSet ==
    { [name |-> "pz:limitmap:title", value |-> 9], [name |-> "pz:limitmap:date", value |-> 9] }

Override(id, name, value) == [id |-> id, name |-> name, value |-> value]
MCOverrides ==
    { Override(1, "pz:authentication", 7), Override(2, "pz:authentication", 8),
      Override(3, "pz:limitmap:title", 8) }

MCFilters ==
    { [union |-> FALSE, criteria |-> {}],
      [union |-> TRUE, criteria |-> {[name |-> "pz:authentication", values |-> {2}],
                                     [name |-> "pz:limitmap:date", values |-> {2}]}] }
=============================================================================
