------------------------------ MODULE MCBrowser ------------------------------
(* Two models in one run, one for a behaviour: uploads from a browser, and
   the windows of the rate.  What the other one holds stays as it began. *)
EXTENDS BrowserUpload, RateWindow, TLC

VARIABLE topic

(* The tenant's own calls and whatever comes under the public key of its
   site share a counter; a neighbour has its own, tickets have theirs. *)
MCClients == {"own", "widget", "neighbour", "tickets", "stranger"}
MCHeaderKey == "own" :> "k1" @@ "neighbour" :> "k2" @@ "stranger" :> "?"
               @@ "widget" :> "site" @@ "tickets" :> "site"
MCTenantOf == "k1" :> "t1" @@ "site" :> "t1" @@ "k2" :> "t2"
MCLimit == <<"tenant", "t1">> :> 2 @@ <<"tenant", "t2">> :> 3
           @@ <<"public", "site">> :> 1 @@ <<"unknown-key">> :> 1
MCMaxCalls == <<"tenant", "t1">> :> 3 @@ <<"tenant", "t2">> :> 5
              @@ <<"public", "site">> :> 1 @@ <<"unknown-key">> :> 1

TopicInit ==
  /\ topic \in {"upload", "shared", "alone", "others"}
  /\ BrowserInit /\ RateInit

UploadStep == topic = "upload" /\ BrowserNext /\ UNCHANGED <<rateVars, topic>>

(* Two clients at one counter or at one each, over the seam of two windows,
   or one by itself over three, until counters expire. *)
Calling == CASE topic = "shared" -> {"own", "widget"}
             [] topic = "alone" -> {"neighbour"}
             [] topic = "others" -> {"tickets", "stranger"}
             [] OTHER -> {}
FewTicks == 6

RateStep ==
  /\ topic # "upload" /\ UNCHANGED <<browserVars, topic>>
  /\ \/ Tick /\ (topic \in {"shared", "others"} => now < FewTicks)
     \/ \E c \in Calling : Call(c) \/ Answer(c)

TopicSpec ==
  /\ TopicInit /\ [][UploadStep \/ RateStep]_<<browserVars, rateVars, topic>>
  /\ \A p \in Processes : WF_browserVars(topic = "upload" /\ Handler(p))
=============================================================================
