--------------------------- MODULE AccessInvariant ---------------------------
(***************************************************************************)
(* Why the access request controller leaves nothing behind and forgets     *)
(* nothing.  As in ClusterInvariant it decides from copies of the request  *)
(* that may be old, and what makes that safe is what an old copy still     *)
(* guarantees; here also about the grant, the Secret and the kind cluster  *)
(* its connection is to.                                                   *)
(***************************************************************************)
EXTENDS AccessController

(* The request is there and cannot go without the controller.              *)
Kept(o) == Exists(o) /\ o.fin
Claimed == Kept(api)

(* The deletion timestamp is set, and nothing ever takes it back.          *)
Past(o) == o.st \in {"deleting", "gone"}

Copies == {cache} \cup {watch[i] : i \in 1..Len(watch)}

(* A live copy with the finalizer means that it is still there; what was   *)
(* asked for, a deletion and a grant are never taken back.                 *)
Faithful(o, stored) ==
  /\ o.st = "live" /\ o.fin => Kept(stored)
  /\ Past(o) => Past(stored)
  /\ o.st # "none" => stored.st # "none" /\ o.ask = stored.ask
  /\ o.status.granted => stored.status.granted

(* Copies arrive in the order of the writes, the stored one at last.       *)
CopiesInOrder ==
  /\ \A i \in 1..Len(watch) : Past(cache) => Past(watch[i])
  /\ \A i, j \in 1..Len(watch) : i < j /\ Past(watch[i]) => Past(watch[j])
  /\ api = IF watch = <<>> THEN cache ELSE watch[Len(watch)]

CopiesFaithful ==
  /\ \A o \in Copies : Faithful(o, api)
  /\ CopiesInOrder
  /\ api.st = "none" => api = NoRequest
  /\ api.st = "deleting" => api.fin

(* A token and a connection are for a kind cluster there has been.         *)
HostKnown ==
  /\ incarnation <= edits + 1
  /\ host[Cluster] # "absent" => incarnation > 0
  /\ secret # NoSecret => secret.inc > 0
  /\ secret.inc <= incarnation /\ conn <= incarnation

Providing == {"address", "annotate", "inspect", "grant", "issue", "prune", "oidc"}
Removing == {"clean", "removeFinalizer"}

(* The worker's copy differs from the stored request, unless it is out of  *)
(* date, by the address only as long as it is still to be written; and no  *)
(* grant it has read is missing from it or from the API server.            *)
ViewFaithful ==
  pc # "idle" =>
    /\ view.st # "none" /\ api.st # "none" /\ view.ask = api.ask
    /\ was.granted => view.status.granted /\ api.status.granted
    /\ current /\ pc \in {"addFinalizer", "address", "annotate"} \cup Removing =>
         view = [api EXCEPT !.address = view.address]

(* The worker provides only under the claim, and removes only what no live *)
(* copy can reach any more; it gives the claim up when nothing is left.    *)
PassJustified ==
  /\ pc = "addFinalizer" => view.st = "live"
  /\ pc \in Providing => Claimed
  /\ pc \in Removing => Past(cache)
  /\ pc = "removeFinalizer" => granted = Nothing
  /\ pc = "oidc" => view.ask = "oidc"
  /\ pc \in {"inspect", "grant", "issue", "prune"} => view.ask = "token"
  /\ pc = "done" /\ view.ask = "oidc" => view.status.granted
  /\ pc = "issue" /\ conn = incarnation /\ host[Cluster] # "absent" => granted.account

(* Nobody says granted before there is a Secret, nor believes in one that  *)
(* is not there, and without an edit it stays.                             *)
SecretKept ==
  /\ api.st = "none" => secret = NoSecret /\ seen = NoSecret
  /\ edits = 0 /\ Exists(api)
     /\ \/ api.status.granted
        \/ pc # "idle" /\ view.status.granted
        \/ seen # NoSecret
     => secret # NoSecret

(* Together with TypeOK these are inductive.                               *)
AccessJustified ==
  /\ CopiesFaithful /\ HostKnown /\ ViewFaithful /\ PassJustified /\ SecretKept
  /\ NoLeftoverAccess /\ TokenBacked /\ NeverForgotten

(* A pass is about a request that lives, or one that is deleted, and then  *)
(* the informer knows.                                                     *)
PassKind ==
  /\ pc # "idle" => view.st \in {"live", "deleting"}
  /\ pc \in Providing \cup {"addFinalizer"} => view.st = "live"
  /\ pc \in Removing => view.st = "deleting"
  /\ pc # "idle" /\ view.st = "deleting" => Past(cache)

(* Without an edit all copies ask for the same.                            *)
WantKept ==
  edits = 0 => /\ \A o \in Copies : o.st # "none" => o.want = api.want
               /\ pc # "idle" => view.want = api.want

(* A grant and a token the informer knows of are for a kind cluster there  *)
(* has been.                                                               *)
GrantKnown ==
  /\ api.status.granted \/ (pc # "idle" /\ view.status.granted) \/ pc = "issue"
       => incarnation > 0
  /\ seen # NoSecret => seen.inc > 0 /\ seen.inc <= incarnation

(* As long as no copy the worker may act on is deleted, what was granted,  *)
(* or is about to be, is there.                                            *)
GrantServed ==
  edits = 0 /\ host[Cluster] # "absent" /\ api.ask = "token" =>
    /\ ~Past(cache) /\ api.status.granted => Served(api.want)
    /\ pc # "idle" /\ view.st = "live" /\ view.status.granted => Served(api.want)
    /\ pc = "issue" => Served(api.want)

(* Together with TypeOK and AccessJustified these are inductive.           *)
AccessServed == PassKind /\ WantKept /\ GrantKnown /\ GrantServed

(* Generations grow, and what is observed is not ahead of any copy the     *)
(* worker can still write from.  Inductive together with the above.        *)
ObservedKnown ==
  /\ \A i \in 1..Len(watch) : cache.gen <= watch[i].gen
  /\ \A i, j \in 1..Len(watch) : i < j => watch[i].gen <= watch[j].gen
  /\ api.status.obsGen <= cache.gen
  /\ pc # "idle" => api.status.obsGen <= view.gen /\ view.gen <= cache.gen

=============================================================================
