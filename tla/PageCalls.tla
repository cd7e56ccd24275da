----------------------------- MODULE PageCalls -----------------------------
(***************************************************************************)
(* The calls a page of the web client has under way.  They are independent *)
(* of each other: the server works on them in any order, answers arrive in *)
(* any order, and a call may be lost, which the page hears of as a failure *)
(* although the server may have done, or may still do, what it was asked.  *)
(*                                                                         *)
(* Where a page numbers the requests of a kind and ignores all answers but *)
(* that of the last, "live" says that a call is the last of its kind.      *)
(***************************************************************************)
EXTENDS Naturals, FiniteSets

CONSTANTS Calls, None,
          MaxAsked,    \* bound: what the user starts
          MaxLost      \* bound: calls the page hears nothing of

VARIABLES page,     \* what the page's component holds
          server,   \* what the server holds
          call, asked, lost
pagevars == <<page, server, call, asked, lost>>

Sent(kind, arg) ==
  [kind |-> kind, arg |-> arg, live |-> TRUE, heard |-> TRUE, stage |-> "sent", answer |-> None]

Free(calls) == {c \in Calls : calls[c] = None}
Put(calls, k) == [calls EXCEPT ![CHOOSE c \in Free(calls) : TRUE] = k]
Dropped(c) == [call EXCEPT ![c] = None]

\* A number that is raised: answers to the earlier requests of these kinds are ignored.
Ignored(calls, kinds) ==
  [c \in Calls |-> IF calls[c] # None /\ calls[c].kind \in kinds
                   THEN [calls[c] EXCEPT !.live = FALSE] ELSE calls[c]]

\* The user starts something: the page changes and a call goes out.
Gives(calls, k, p) ==
  /\ asked < MaxAsked /\ asked' = asked + 1
  /\ Free(calls) # {} /\ call' = Put(calls, k)
  /\ page' = p
  /\ UNCHANGED <<server, lost>>

\* The user changes only the page.
Turns(p) == page' = p /\ UNCHANGED <<server, call, asked, lost>>

\* The page is left or mounted anew: whoever awaited an answer is gone.
Unmounted == [c \in Calls |-> IF call[c] = None THEN None ELSE [call[c] EXCEPT !.heard = FALSE]]

Arrived(c) == call[c] # None /\ call[c].heard /\ call[c].stage \in {"ok", "refused"}
Ok(c) == call[c].stage = "ok"

\* The page goes on with its calls as they are now.
Goes(calls, p) == call' = calls /\ page' = p /\ UNCHANGED <<server, asked, lost>>

\* The server's answer, with what it changed.
Answers(c, result, s) ==
  /\ call' = [call EXCEPT ![c].stage = "ok", ![c].answer = result]
  /\ server' = s
  /\ UNCHANGED <<page, asked, lost>>

Refuses(c) ==
  /\ call[c] # None /\ call[c].stage = "sent"
  /\ call' = [call EXCEPT ![c].stage = "refused"]
  /\ UNCHANGED <<page, server, asked, lost>>

\* The page is told that a call failed; the server may still get it.
Loses(c) ==
  /\ call[c] # None /\ call[c].heard /\ call[c].stage \in {"sent", "ok"}
  /\ lost < MaxLost /\ lost' = lost + 1
  /\ LET failed == [call EXCEPT ![c].stage = "refused"]
     IN \/ call' = failed
        \/ /\ call[c].stage = "sent" /\ Free(call) # {}
           /\ call' = Put(failed, [call[c] EXCEPT !.heard = FALSE])
  /\ UNCHANGED <<page, server, asked>>

Unheard(c) ==
  /\ call[c] # None /\ ~call[c].heard /\ call[c].stage \in {"ok", "refused"}
  /\ Goes(Dropped(c), page)

=============================================================================
