--------------------------- MODULE MCNamedTunnel ---------------------------
(***************************************************************************)
(* NamedTunnel for TLC. The configuration chooses two of everything that   *)
(* could be confused; Focus keeps the cases apart.                         *)
(***************************************************************************)
EXTENDS NamedTunnel

SecondName == \E g \in given : g[1] = Short(2)
SecondTunnel == Cardinality({t \in Tunnel : tunnels[t] # Unused}) > 1
SecondPort == \E m \in Machine : config[m].port # 1
LeftBehind == orphans # {}

\* A behaviour is followed as long as no two of the four have happened, but for a
\* connector left behind by a daemon whose successor has another port; and with
\* one left behind, as long as no name of the older kind has been in use and the
\* machine has its identity.
Focus ==
  /\ SecondName => ~SecondTunnel /\ ~SecondPort /\ ~LeftBehind
  /\ SecondTunnel => ~SecondPort /\ ~LeftBehind
  /\ LeftBehind => /\ \A g \in given : g[1] = Short(1)
                   /\ \A m \in Machine : identity[m] # Nobody
=============================================================================
