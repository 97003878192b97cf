---------------------------- MODULE MCSanitize -----------------------------
(* A small instance of Sanitize: the parameters a test of sanitizeURL names, *)
(* in the spellings url.Values.Encode changes and keeps, and a token whose   *)
(* value cannot be decoded.                                                  *)
EXTENDS Sanitize, TLC

MCName == "q=b" :> "q" @@ "q=a" :> "q" @@ "a" :> "a" @@ "a=" :> "a" @@
          "Token=x" :> "Token" @@ "%74oken=y" :> "token" @@ "token=y" :> "token" @@
          "token=%zz" :> "token" @@ "CODE=1" :> "CODE" @@ "=1" :> ""
MCCanonical == [p \in DOMAIN MCName |-> CASE p = "a" -> "a="
                                          [] p = "%74oken=y" -> "token=y"
                                          [] OTHER -> p]
\* Bytes are compared, so capitals come first.
MCRank == "" :> 0 @@ "CODE" :> 1 @@ "Token" :> 2 @@ "a" :> 3 @@ "q" :> 4 @@ "token" :> 5
MCFolded == "CODE" :> "code" @@ "code" :> "code" @@ "Token" :> "token" @@
            "a" :> "a" @@ "q" :> "q" @@ "token" :> "token" @@ "" :> ""
MCTrimmed == " code" :> "code" @@ "  " :> ""

Paths == {<<>>, <<"/p">>, <<"/p", "/p">>, <<"~">>, <<"/%zz">>, <<" ", "/p">>}
Sendable == DOMAIN MCName \ {"token=y", "a="}
Queries == {<<>>} \union {<<"?">> \o q : q \in BoundedSeq(Sendable, 3)}
Fragments == {<<>>, <<"#">>, <<"#", "q=a", " ">>, <<"#", "token=%zz">>, <<" ">>}
MCTexts == {t[1] \o t[2] \o t[3] : t \in Paths \X Queries \X Fragments}

MCLetters == {"?", "#", " ", "~", "/p", "/%zz", "-", ".", "e"}
             \union DOMAIN Digits \union DOMAIN MCName
MCLiterals == BoundedSeq({"-", ".", "0", "1", "9", "e"}, 5)
MCColumns == {[precision |-> 3, scale |-> 1], [precision |-> 2, scale |-> 2],
              [precision |-> 3, scale |-> 0]}
=============================================================================
