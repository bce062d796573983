---------------------------- MODULE MCSlackClient ----------------------------
(* Two goroutines, three jobs: one of any kind, and two calls of one tier.  *)
(* Every tier has a burst of one and refills one token a tick.              *)
EXTENDS SlackClient

Call(op, flaw) == [kind |-> "call", op |-> op, flaw |-> flaw]
Http(route, flaw, type, class, words) ==
  [kind |-> "http", route |-> route, flaw |-> flaw, type |-> type,
   class |-> class, words |-> words]
DM(words) == Http("events", "none", "event_callback", "dm", words)

\* Every kind of job, with the flaws that are refused at different places.
Kinds ==
  {Call("send", "none"), Call("send", "empty"), Call("createApp", "none"),
   Call("createApp", "unset"), Call("installApp", "none"), Call("installApp", "unset"),
   Call("allow", "none"), Call("setProfile", "empty"),
   Call("openIM", "none"), Call("setProfile", "none"), Call("lookupUser", "bot"),
   Call("history", "none"), DM({"propose", "cost"}), DM({"list"}), DM({}),
   Http("events", "none", "event_callback", "bot", {}),
   Http("events", "none", "url_verification", "none", {}),
   Http("interactions", "none", "none", "none", {}),
   Http("events", "json", "event_callback", "dm", {}),
   Http("events", "sig", "event_callback", "dm", {}),
   Http("events", "large", "event_callback", "dm", {})}
MCJobs == <<Kinds, {Call("send", "none")}, {Call("lookupUser", "user")}>>

MCLimits == [t \in 1..4 |-> [burst |-> 1, sustained |-> 1, window |-> 1]]
=============================================================================
