------------------------------ MODULE MCNodeTasks ------------------------------
(***************************************************************************)
(* Instances of Startup and NodeTasks for TLC.                             *)
(***************************************************************************)
EXTENDS Startup

Packets == {<<"v4", "PackageShareRead">>, <<"tun", "Package">>}

\* One of everything, then an announcement that is flooded.  What cannot be
\* decoded (DoNoting) is decided like a DelNodeRead.
MixedThenFlood ==
    <<Packets \cup {<<"v6", "AddNodeRead">>, <<"v6", "DelNodeRead">>,
                    <<"v4", "PingPongRead">>, <<"v4", "Error">>,
                    <<"v6", "BadNodeRead">>, <<"v4", "BadPackageRead">>},
      {<<"v6", "AddNodeRead">>}>>

\* A packet, an announcement that is flooded, or a record that cannot be read.
TrafficOrBad ==
    <<{<<"tun", "Package">>, <<"v4", "AddNodeRead">>, <<"v4", "BadNodeRead">>}>>

NoHello == << >>
OneHello == <<"v4">>

\* To nobody, and to two of one family.
SomeFloods == {<< >>, <<"v6", "v6">>}

OnePing == <<{<<"v4", "PingPongRead">>}>>
=============================================================================
