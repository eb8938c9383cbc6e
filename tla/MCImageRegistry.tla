-------------------------- MODULE MCImageRegistry ---------------------------
(* Instances of ImageRegistry for TLC.                                     *)
EXTENDS ImageRegistry

Parts(host, path, tag, digest) ==
  [host |-> host, path |-> path, tag |-> tag, digest |-> digest]

Container(parts, policy, secrets) ==
  [parts |-> parts, policy |-> policy, secrets |-> secrets]

App     == <<"app">>
TeamApp == <<"team", "/", "app">>
Corp    == <<"reg.corp">>
Port    == Corp \o <<":", "5000">>
V1      == <<"v1">>
Digest  == <<"sha256", ":", "c0ffee">>

Moving == Parts(Corp, TeamApp, V1, <<>>)
Bare   == Parts(<<>>, App, <<>>, <<>>)
ECRApp == Parts(<<"id.dkr.ecr.eu.amazonaws.com">>, App, V1, <<>>)

Auth(registry, usable) == [registry |-> registry, server |-> <<>>, usable |-> usable]

(* In server and in broken two entries match an image of Corp.             *)
MCSecrets ==
  [hub    |-> {Auth(Https \o Hub \o <<"/", "v1", "/">>, TRUE), Auth(Corp, TRUE)},
   port   |-> {Auth(Port, TRUE), Auth(<<"other.corp", "/">>, FALSE)},
   server |-> {[registry |-> name, server |-> Https \o Corp, usable |-> TRUE] :
                 name \in {Corp, Https \o Corp}},
   broken |-> {Auth(Corp, FALSE), Auth(Https \o Corp \o <<"/">>, TRUE)}]

MCDefault == <<"hub">>

MCContainers ==
  {Container(Moving, "IfNotPresent", <<"port">>),
   Container(Moving, "Always", <<"server">>),
   Container(Bare, "IfNotPresent", <<>>),
   Container(ECRApp, "IfNotPresent", <<>>),
   Container(ECRApp, "Always", <<>>),
   Container(Parts(<<>>, TeamApp, V1, <<>>), "IfNotPresent", <<>>),
   Container(Parts(<<"docker.io">>, TeamApp, <<>>, Digest), "IfNotPresent", <<"port">>),
   Container(Parts(Port, TeamApp, V1, <<>>), "IfNotPresent", <<"port">>),
   Container(Parts(Corp, App, V1, <<>>), "Never", <<"port", "broken">>)}

MCTags == {Meant(Moving), Meant(Bare)}

(* The theorems' assumptions hold of these containers.                     *)
ASSUME NamesAssumption ==
  \A ctr \in MCContainers : ReadAsMeant(ctr) /\ LatestSeen(ctr)

ASSUME TokensAssumption == TokenLifetimes

(* An official image by its full name, a registry inside the cluster that  *)
(* is named by its service, and a name with both a tag and a digest.       *)
OtherNames ==
  {Container(Parts(<<"docker.io">>, App, V1, <<>>), "IfNotPresent", <<>>),
   Container(Parts(<<"registry", ":", "5000">>, App, V1, <<>>), "IfNotPresent", <<>>),
   Container(Parts(Corp, App, V1, Digest), "IfNotPresent", <<>>)}
=============================================================================
