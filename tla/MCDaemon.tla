----------------------------- MODULE MCDaemon -----------------------------
(* Small instances of Daemon for TLC: files that differ from a complete one *)
(* by what each kind of definition can lack or get wrong.  The name net is  *)
(* a plugin and more, Eth has an upper case letter, and long has NAME_LEN   *)
(* characters, of which all but the last are kept.                          *)
EXTENDS Daemon

CONSTANTS pgsql, rrd, net, permit, a, b, host, Eth, eth, long, longCut, none

MCNames == {pgsql, rrd, net, permit, a, b, host, Eth, eth, long, longCut}
MCKept  == [n \in MCNames |-> IF n = long THEN longCut ELSE n]
MCAsked == [n \in MCNames |-> IF n = Eth THEN eth ELSE n]

P(n, t)       == [name |-> n, type |-> t, file |-> TRUE]
I(n, p)       == [name |-> n, plugin |-> p, values |-> TRUE]
D(n, se, st)  == [name |-> n, type |-> TRUE, desc |-> TRUE, sensor |-> se, storage |-> st]
S(n, ds)      == [name |-> n, desc |-> TRUE, dsets |-> ds]

(* The lists that the parser makes of the definitions. *)
File(ps, sts, ses, sys) ==
  [plugins |-> ps, storages |-> sts, sensors |-> ses,
   systems |-> [k \in DOMAIN sys |-> [name |-> sys[k].name, desc |-> sys[k].desc]],
   dsets |-> FlattenSeq([k \in DOMAIN sys |->
               [j \in DOMAIN sys[k].dsets |-> [system |-> sys[k].name] @@ sys[k].dsets[j]]])]

Base == <<P(pgsql, "storage"), P(rrd, "sensor")>>
Rest == <<P(net, "proto"), P(permit, "auth")>>

MCPlugins ==
  {Base \o Rest, Base \o <<P(net, "proto")>>, Base \o <<P(permit, "auth")>>,
   Rest, <<P(pgsql, "storage"), P(rrd, "none")>> \o Rest,
   <<P(pgsql, "storage"), [P(rrd, "sensor") EXCEPT !.file = FALSE]>> \o Rest,
   <<P(pgsql, "storage"), P(pgsql, "storage")>> \o Rest}

MCStorages ==
  {<<>>, <<I(a, pgsql)>>, <<I(a, pgsql), I(b, pgsql)>>, <<I(a, pgsql), I(a, pgsql)>>,
   <<I(a, rrd)>>, <<[I(a, pgsql) EXCEPT !.values = FALSE]>>}

MCSensors ==
  {<<>>, <<I(a, rrd)>>, <<I(a, rrd), I(b, rrd)>>, <<I(a, rrd), I(a, rrd)>>, <<I(a, net)>>}

MCSystems ==
  {<<>>,
   <<S(host, <<D(eth, a, a), D(Eth, b, b)>>)>>,
   <<S(host, <<D(eth, none, a)>>), S(net, <<D(eth, a, a)>>)>>,
   <<S(host, <<D(eth, a, none)>>)>>,
   <<S(host, <<D(eth, a, a)>>), S(host, <<D(eth, a, a)>>)>>,
   <<S(long, <<D(eth, a, a)>>)>>,
   <<S(host, <<D(long, a, a), D(eth, b, a)>>)>>,
   <<S(host, <<[D(eth, a, a) EXCEPT !.type = FALSE]>>)>>,
   <<S(host, <<[D(eth, a, a) EXCEPT !.desc = FALSE]>>)>>}

MCFiles == {File(ps, sts, ses, sys) : ps \in MCPlugins, sts \in MCStorages,
                                      ses \in MCSensors, sys \in MCSystems}

(* One complete file. *)
MCComplete == {File(Base \o Rest, <<I(a, pgsql), I(b, pgsql)>>, <<I(a, rrd)>>,
                    <<S(host, <<D(eth, a, a)>>)>>)}

MCPeriodic == {<<"stor", 2>>, <<"sens", 1>>, <<"sens", 2>>}
MCCallback == {<<"sens", 1>>, <<"sens", 2>>}
=============================================================================
