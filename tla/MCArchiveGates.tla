--------------------------- MODULE MCArchiveGates ---------------------------
(***************************************************************************)
(* Scenes for ArchiveGates: every set of options with every set of          *)
(* credentials, without haste; rekeying; exchanged files; and the clock     *)
(* under contention.                                                        *)
(***************************************************************************)
EXTENDS ArchiveGates

CONSTANTS p1, p2, k1, k2, q1, q2, s1, s2

Options(pw, kp, provider, pqc) ==
  [pw |-> pw, kp |-> kp, provider |-> provider, unlock |-> 3, pqc |-> pqc, kfpw |-> q1,
   signer |-> None, message |-> pw # None \/ kp # None \/ provider # None]

Calm(opts, reads, horizon) ==
  [opts |-> opts, rekeys |-> {}, reads |-> reads, kinds |-> {"decrypt", "session"},
   rival |-> None, calm |-> TRUE, horizon |-> horizon, skew |-> 0, outages |-> FALSE,
   signedOut |-> FALSE, refreshes |-> 0, revoked |-> {}, swaps |-> 0]

Cred(pw, kp, keyfile, kfpw) == [pw |-> pw, kp |-> kp, keyfile |-> keyfile, kfpw |-> kfpw]

AllReads ==
  {Cred(pw, kp, kf, kfpw) : pw \in {None, p1, p2}, kp \in {None, k1, k2},
                            kf \in {None, "mine", "other"}, kfpw \in {None, q1, q2}}

AllOptions ==
  {Options(pw, kp, provider, pqc) :
     pw \in {None, p1}, kp \in {None, k1}, provider \in {None, "drand", "aavrit"},
     pqc \in {None, "embedded", "external", "dual"}}

Matrix == {Calm(o, AllReads, IF o.provider = None THEN 0 ELSE 4) : o \in AllOptions}

\* What may not be made: too early, too late, one password for two purposes.
Unmakeable ==
  {Calm([Options(p1, None, x[1], None) EXCEPT !.unlock = x[2]], {}, 0) :
     x \in {<<"drand", 0>>, <<"drand", 9>>, <<"aavrit", 0>>}}
  \cup {Calm([Options(None, None, None, None) EXCEPT !.message = TRUE], {}, 0)}
  \cup {Calm([Options(p1, None, None, "dual") EXCEPT !.kfpw = x], {}, 0) : x \in {None, p1}}
  \cup {[Calm(Options(p1, None, "aavrit", None), {}, 0) EXCEPT !.signedOut = TRUE]}

Plain(pw, kp) == Cred(pw, kp, None, None)

Rekeying ==
  {[Calm([Options(p1, kp, None, None) EXCEPT !.signer = s],
         {Plain(p, k) : p \in {None, p1, p2}, k \in {None, k1, k2}}, 0)
      EXCEPT !.rekeys = {[old |-> Plain(a, b), new |-> Plain(c, e), signer |-> g] :
                           a \in {p1, p2}, b \in {None, k1}, c \in {None, p2}, e \in {None, k1, k2}, g \in {None, s1, s2}},
             !.revoked = {s2}] : kp \in {None, k1}, s \in {None, s1, s2}}

Plaintext == Options(None, None, None, None)

Exchanged ==
  {[Calm(Options(p1, None, pr, None), {Plain(p1, None)}, IF pr = None THEN 0 ELSE 4)
      EXCEPT !.rival = rival, !.swaps = 2] :
     pr \in {None, "drand", "aavrit"},
     rival \in {Plaintext, Options(p1, None, None, None), Options(p1, None, "drand", None),
                Options(None, None, "drand", None), Options(None, None, "aavrit", None),
                Options(p1, None, "aavrit", None)}}

\* The clock's answers while threads meet at its cache, it fails, it is forgotten,
\* or the system's own clock is wrong.
Hasty(provider, unlock) ==
  [Calm([Options(p1, None, provider, None) EXCEPT !.unlock = unlock], {Plain(p1, None)}, 4)
     EXCEPT !.calm = FALSE]

Contended ==
  {[Hasty("drand", u) EXCEPT !.outages = o, !.skew = k] : u \in {2, 3}, o \in BOOLEAN, k \in {0, 6}}
  \cup {[Hasty("aavrit", 3) EXCEPT !.outages = TRUE], [Hasty("drand", 3) EXCEPT !.refreshes = 1]}

TheScenes == Matrix \cup Unmakeable \cup Rekeying \cup Exchanged \cup Contended
=============================================================================
