---------------------------- MODULE MCConfigLoad ----------------------------
(***************************************************************************)
(* Files to load: every combination of what validate looks at in one place *)
(* with something plain in the others.                                     *)
(***************************************************************************)
EXTENDS ConfigLoad, TLC

A(h, p) == [host |-> h, port |-> p]

MCQuery == {A("a", ""), A("a", "7687"), A("a", "7688"), A("b", ""), A("localhost", "7687"),
            A("c", ""), A("c", "bolt")}

\* url.Parse takes a port of digits only.
MCUriAddress == {a \in Address : a.port # "bolt"}

\* One file for each set of permission bits of some that matter, one that does not
\* exist, and one with a certificate.
MCDisk == "safe" :> {"ur", "gr"} @@ "world" :> {"ur", "uw", "or"} @@ "group" :> {"ur", "uw", "gr", "gw"}
          @@ "run" :> {"ur", "ux"} @@ "blind" :> {"uw"} @@ "cert" :> {"ur", "uw"}

Maybe(S) == {{}} \cup {{x} : x \in S}

MCFile == DOMAIN MCDisk \cup {"gone"}

PlainBolt == [scheme |-> "", auth |-> "password", username |-> TRUE, password |-> TRUE,
              file |-> {}]
NoAuth == [PlainBolt EXCEPT !.auth = "none", !.username = FALSE, !.password = FALSE]

Bolts ==
  {NoAuth} \cup
  [scheme : {"", "other"}, auth : {"password"}, username : BOOLEAN, password : BOOLEAN,
   file : Maybe(MCFile)]

Jolokias ==
  [url : {TRUE}, auth : Maybe([username : BOOLEAN, password : BOOLEAN,
                             file : Maybe({"safe", "world", "gone"})]), tls : {{}}]
  \cup [url : BOOLEAN, auth : {{}},
        tls : Maybe([ca : Maybe({"cert", "safe"}), cert : Maybe({"cert"}),
                        key : Maybe({"cert", "gone"})])]

T(name, address, module, bolt, jolokia) ==
  [name |-> name, address |-> address, module |-> module, bolt |-> bolt, jolokia |-> jolokia]

PlainTarget == T(A("n", ""), A("b", ""), "", PlainBolt, {})

\* A target alone, with everything that can be wrong about it.
Single ==
  {T(A("n", ""), a, "", b, {}) : a \in {A("a", ""), A("a", "bolt"), A("localhost", ""), A("", "")},
                                b \in Bolts}
  \cup {T(A("n", ""), A("a", ""), "", PlainBolt, {j}) : j \in Jolokias}
  \cup {T(n, A("a", ""), m, PlainBolt, {}) : n \in {A("", ""), A("a", "")},
                                              m \in {"", "default", "other"}}

\* Several whose names and addresses may be the same or each other's.
Several ==
  {T(n, a, m, PlainBolt, {}) : n \in {A("n", ""), A("a", ""), A("a", "7688")},
                               a \in {A("a", ""), A("a", "7688"), A("b", "")},
                               m \in {"", "other"}}

PlainModule == [timeout |-> 0, top |-> 0, collectors |-> {"bolt"}]
Modules ==
  {"default" :> PlainModule,
   "default" :> PlainModule @@ "other" :> [timeout |-> 2, top |-> -1, collectors |-> {"server"}],
   "other" :> PlainModule,
   "default" :> [PlainModule EXCEPT !.collectors = {"bolt", "typo"}] @@ "other" :> PlainModule,
   <<>>}

C(d, s, m, t, dt) ==
  [default_module |-> d, scrape_timeout |-> s, modules |-> m, targets |-> t,
   default_target |-> dt]

TwoModules == "default" :> PlainModule @@ "other" :> [PlainModule EXCEPT !.timeout = 2]

Served == T(A("", ""), A("", ""), "", [PlainBolt EXCEPT !.username = TRUE], {})

MCText ==
  {C(d, s, m, <<PlainTarget>>, {}) : d \in {"", "other"}, s \in {0, 3}, m \in Modules}
  \cup {C("", 0, TwoModules, <<t>>, {}) : t \in Single}
  \cup {C("other", 0, TwoModules, <<>>, {T(A("", ""), A("", ""), m, b, {})}) :
          b \in Bolts, m \in {"", "default"}}
  \cup {C("other", 0, TwoModules, <<>>, {[Served EXCEPT !.jolokia = {j}]}) : j \in Jolokias}
  \cup {C("", 0, "default" :> PlainModule, <<>>, {[Served EXCEPT !.module = "other"]})}
  \cup {C("", 0, TwoModules, <<t, u>>, d) : t, u \in Several, d \in {{}, {Served}}}

=============================================================================
