----------------------------- MODULE MCExchange -----------------------------
(***************************************************************************)
(* Exchange with a variable and properties of names of their own, so that  *)
(* its theorem stands beside those about the sessions of the same proxy    *)
(* (PrivacyProofs), and a small instance of it: pseudonyms that begin,     *)
(* contain and end one another, some with a blank and one for a secret;    *)
(* "ya" stands for a letter that is not ASCII.                             *)
(***************************************************************************)
EXTENDS Restore

CONSTANTS Members, Limit, MaxFrames

ASSUME ExchangeBoundsAssumption == {Members, Limit, MaxFrames} \subseteq Nat

VARIABLES route, stream, masks, pc, member, dictionary, leases, life, armed, fired, aborting,
          cancelled, body, frames, ending, taken, failed, rejected, restored, outcome, reply,
          gone, delivered

E == INSTANCE Exchange WITH sent <- delivered

ExchangeSpec == E!Spec

(* What the client gets of an answer is whole and restored with the        *)
(* dictionary of the member that gave it (readProtectedBody, commit).      *)
ReleasedWhole == E!ReleasedWhole

(* However an upstream cuts its text into deltas, each block's text comes  *)
(* out as if it had come in one piece (NewStreamUnmasker).                 *)
RestoredAsWhole == E!RestoredAsWhole

(* A silent upstream or client does not hold an exchange, nor leaves a     *)
(* body, timer or dictionary behind (abort, stop, CloseExchange).          *)
EveryExchangeEnds == E!EveryExchangeEnds

-----------------------------------------------------------------------------

MCKeys == {<<"k", "l">>, <<"k", "l", " ", "k">>, <<"k", " ", "k">>, <<"l", "m">>, <<"m", " ">>}
MCSecrets == {<<"m", " ">>}
MCSymbols == {"k", "l", "m", "ya", " ", "!"}

Of(event, i) == Frame(event, i, "none", <<>>)
Message(of) == <<Of("message_start", 0)>> \o of \o <<Of("message_stop", 0)>>

\* One block: a text of up to four symbols, cut into its start and two deltas.
OneBlock ==
    {Message(<<Frame("start", 1, "text", SubSeq(t[1], 1, t[2])),
               Frame("delta", 1, "text", SubSeq(t[1], t[2] + 1, t[3])),
               Frame("delta", 1, "text", SubSeq(t[1], t[3] + 1, Len(t[1]))),
               Of("stop", 1)>>) :
        t \in UNION {UNION {[1 .. n -> MCSymbols \ {"!"}] \X {a} \X (a .. n) : a \in 0 .. n} : n \in 0 .. 4}}

\* Two blocks, of kinds that are restored, kept or unknown, their frames mixed.
Deltas(i, kind) == {<<Frame("delta", i, kind, x), Frame("delta", i, kind, y)>> :
                        x, y \in {<<"k">>, <<"l">>, <<" ", "k">>, <<"!">>}}
TwoBlocks ==
    {Message(<<Frame("start", 1, "text", <<>>), Frame("start", 2, k, <<>>),
               d[1], e[1], d[2], e[2], Of("ping", 0), Of("stop", x), Of("stop", 3 - x)>>) :
        k \in {"tool", "thinking", "future"}, x \in {1, 2},
        d \in Deltas(1, "text"), e \in Deltas(2, "tool") \cup Deltas(2, "thinking")}

\* Streams that lack a frame, repeat one or have two in the wrong order.
Damaged ==
    LET sound == Message(<<Frame("start", 1, "text", <<"k">>), Frame("delta", 1, "text", <<"l">>),
                           Of("stop", 1)>>)
    IN  UNION {{RemoveAt(sound, p), InsertAt(sound, p, sound[p]), InsertAt(sound, p, Of("error", 0))}
               : p \in DOMAIN sound}
        \cup {[sound EXCEPT ![p] = sound[p + 1], ![p + 1] = sound[p]] : p \in 1 .. Len(sound) - 1}

MCBodies == OneBlock \cup TwoBlocks \cup Damaged
=============================================================================
