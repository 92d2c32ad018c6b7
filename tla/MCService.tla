------------------------------ MODULE MCService ------------------------------
EXTENDS Service

(* Evidence: what assembled bundles can hold for a signer, with their word *)
(* from the archive: a statement, or none and a key that the archive has   *)
(* recovered or contradicts.                                               *)
Assembled_(ots, statement, archived, inWindow) ==
    [hard |-> TRUE, tsr |-> TRUE, ots |-> ots, statement |-> statement,
     archived |-> archived, inWindow |-> inWindow]
Assembled == {Assembled_("anchored", TRUE,  "live",      TRUE),
              Assembled_("anchored", FALSE, "recovered", FALSE),
              Assembled_("absent",   FALSE, "otherKey",  TRUE)}

(* Forward: the messages mail programs send, each with one thing about it. *)
Signature(p, a, x, l) == [by |-> p, algo |-> a, lapses |-> x, length |-> l]
Message(s, pl, ht, d, f, a) ==
    [signatures |-> s, plain |-> pl, html |-> ht, pdf |-> d, fails |-> f, arcMicrosoft |-> a]
Own     == Signature("own", "rsa", FALSE, FALSE)
Weekly  == Signature("own", "rsa", TRUE, FALSE)
Relayed == Signature("relay", "rsa", FALSE, FALSE)
Usual(s) == Message(s, "phrase", "absent", "ours", {}, FALSE)

Messages ==
    {Usual(s) : s \in {<<Own>>, <<Relayed, Weekly>>,
                       <<Signature("own", "sha1", FALSE, FALSE), Own>>,
                       <<Signature("own", "ed25519", FALSE, FALSE)>>,
                       <<Signature("own", "rsa", FALSE, TRUE)>>,
                       <<Signature("fallback", "rsa", FALSE, FALSE)>>}}
    \union {Message(<<>>, "phrase", "absent", "ours", {}, TRUE),
            Message(<<Own>>, "blank", "phrase", "ours", {}, FALSE),
            Message(<<Own>>, "absent", "phrase", "modified", {}, FALSE),
            Message(<<Own>>, "phrase", "phrase", "missing", {"spf"}, FALSE)}

(* Only plain rsa-sha256 mail, with and without an expiry.                 *)
RsaMessages == {Usual(s) : s \in {<<Own>>, <<Relayed, Weekly>>}}
=============================================================================
