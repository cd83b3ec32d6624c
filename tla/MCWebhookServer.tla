-------------------------- MODULE MCWebhookServer ---------------------------
(* Requests of the WebhookServer run: a good delivery, every delivery that     *)
(* differs from it in one or two of signature, id, event and body, good ones   *)
(* of other sizes, kill requests, and what the router refuses.                 *)
EXTENDS WebhookServer

Good == [route |-> "webhook", method |-> "POST", token |-> FALSE, size |-> 1,
         signature |-> "valid", has_id |-> TRUE, event |-> "listed", body |-> "listed_action"]

Differences(in) ==
  Cardinality({ f \in {"signature", "has_id", "event", "body"} : in[f] # Good[f] })
Deliveries ==
  { in \in { [Good EXCEPT !.signature = s, !.has_id = i, !.event = e, !.body = b] :
             s \in {"missing", "malformed", "wrong", "valid"}, i \in BOOLEAN,
             e \in {"missing", "unlisted", "listed"},
             b \in {"not_json", "not_object", "unlisted_action", "listed_action"} } :
      Differences(in) <= 2 }
OtherSizes ==
  { [Good EXCEPT !.size = 0, !.body = "not_json"], [Good EXCEPT !.size = 2],
    [Good EXCEPT !.size = 3], [Good EXCEPT !.size = 3, !.signature = "wrong"] }
Kills ==
  { [Good EXCEPT !.route = "kill", !.method = m, !.token = t, !.size = n, !.body = "not_json"] :
      m \in {"GET", "POST"}, t \in BOOLEAN, n \in {0, 2, 3} }
Refused ==
  { [Good EXCEPT !.method = "GET"], [Good EXCEPT !.route = "other"],
    [Good EXCEPT !.route = "health"], [Good EXCEPT !.route = "health", !.method = "GET"] }

MCInbound == Deliveries \cup OtherSizes \cup Kills \cup Refused
=============================================================================
