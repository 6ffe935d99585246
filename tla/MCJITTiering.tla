---------------------------- MODULE MCJITTiering ----------------------------
(* Small programs for JITTiering: two functions, two loops.                *)
EXTENDS JITTiering

\* Loop l lies at an address l past the beginning of the unit it is in.
Chunk(entries, owner, t1, t2, base) ==
    LET entry == [f \in 0 .. 1 |-> entries[f + 1]]
    IN  [entry |-> entry, size |-> entries[2] + 6, baseline |-> base,
         loops |-> [l \in DOMAIN owner |->
            [of |-> owner[l], tier1 |-> l \in t1, tier2 |-> l \in t2,
             at |-> (IF owner[l] = Top THEN 0 ELSE entry[owner[l]]) + l]]]

Program(mode, raw, run, owner, t1, t2, base, called, sites) ==
    [n |-> 2, loops |-> DOMAIN owner, mode |-> mode,
     raw |-> Chunk(raw, owner, t1, t2, base),
     run |-> Chunk(run, owner, t1, t2, base),
     called |-> called, plain |-> {0}, sites |-> sites]

NoSites == << >>
OneSite == [s \in {"site"} |-> [r \in {"A", "B", "C"} |-> IF r = "A" THEN 0 ELSE 1]]

Entries == {{}, {1}, {1, 2}}
Owners  == {<<0, 1>>, <<1, 1>>, <<Top, 1>>}

\* Every program of the family that lies well.
MCPrograms ==
    {p \in {Program(mode, <<8, 19>>, run, owner, t1, t2, base, c[1], c[2]) :
              mode \in {"prearmed", "embedded", "tier1"},
              run \in {<<8, 19>>, <<9, 20>>, <<10, 22>>, <<4, 8>>,
                      <<4, 19>>, <<1, 19>>, <<20, 40>>}, owner \in Owners,
              t1 \in Entries, t2 \in Entries, base \in {{}, {Top, 0, 1}},
              c \in {<<{0, 1}, NoSites>>, <<{1}, OneSite>>}} :
        WellPlaced(p)}

\* Two functions as cmd_run hands them over, with its own table sizes: the
\* second starts at address 129, beyond the 128 slots of the table.
AliasPrograms ==
    {Program("prearmed", <<5, 129>>, <<5, 129>>, << >>, {}, {}, {}, {0, 1}, NoSites)}
=============================================================================
