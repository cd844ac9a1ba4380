---------------------------- MODULE MCSessionPorts ----------------------------
(***************************************************************************)
(* Three services and two port names.  Graphs are all the dependency       *)
(* graphs, cyclic ones included, of sessions without ports; Sessions are   *)
(* sessions with ports, each for a case or two that the code tells apart,  *)
(* on machines where any set of numbers is taken at first.                 *)
(***************************************************************************)
EXTENDS SessionPorts

MCServices == 1..3
MCPortNames == 1..2

Needs(a, b, c) == <<a, b, c>>
Fork == Needs({}, {}, {1, 2})      \* 3 needs 1 and 2, which run concurrently
Chain == Needs({}, {1}, {2})
Pair == Needs({}, {}, {1})         \* 2 is on its own

Plain == [needs |-> Fork, roots |-> {2, 3}, declared |-> {1, 2},
          mode |-> <<"first_free", "first_free">>, low |-> <<1, 1>>, high |-> <<1, 1>>,
          route |-> <<None, None, None>>, mentions |-> <<{}, {}, {}>>, shared |-> {},
          optional |-> {}, resources |-> {}, daemon |-> TRUE, taken |-> {}, moves |-> 0]

Graphs == {[Plain EXCEPT !.needs = n, !.roots = r] :
             n \in [MCServices -> SUBSET MCServices], r \in (SUBSET MCServices) \ {{}}}

TwoPorts == [Plain EXCEPT !.route = <<1, 2, None>>, !.shared = {1, 2}]

Cases ==
    { \* each of two branches has a port that may move, the third service sees both
      TwoPorts, [TwoPorts EXCEPT !.needs = Pair],
      [TwoPorts EXCEPT !.mode = <<"random", "fixed">>, !.low = <<1, 2>>, !.high = <<3, 2>>],
      \* a discovered port, a resource that mentions it through the environment
      [TwoPorts EXCEPT !.mode = <<"discover", "first_free">>, !.route = <<1, None, 2>>, !.resources = {2}],
      [TwoPorts EXCEPT !.mode = <<"discover", "first_free">>, !.needs = Chain],
      \* both names belong to one service
      [Plain EXCEPT !.mode = <<"first_free", "fixed">>, !.low = <<1, 2>>, !.high = <<1, 2>>,
                    !.needs = Chain, !.mentions = <<{1, 2}, {}, {}>>],
      [Plain EXCEPT !.mode = <<"discover", "discover">>, !.mentions = <<{1, 2}, {}, {}>>],
      \* two routes to one port
      [Plain EXCEPT !.route = <<1, 1, None>>, !.mentions = <<{}, {}, {1}>>],
      \* no daemon
      [TwoPorts EXCEPT !.daemon = FALSE],
      [TwoPorts EXCEPT !.daemon = FALSE, !.optional = {1, 2}, !.needs = Pair],
      \* refused before a port is probed
      [TwoPorts EXCEPT !.declared = {1}],
      [Plain EXCEPT !.mentions = <<{1}, {1}, {}>>],
      [Plain EXCEPT !.mode = <<"discover", "fixed">>, !.shared = {1}],
      [TwoPorts EXCEPT !.mode = <<"fixed", "fixed">>] }

Sessions == {[c EXCEPT !.taken = n, !.moves = 1] : c \in Cases, n \in SUBSET Numbers}

MCConfigs == Graphs \cup Sessions
=============================================================================
