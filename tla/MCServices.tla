------------------------------ MODULE MCServices ------------------------------
(* An instance of Services for TLC. *)
EXTENDS Services, MCCollabDocument

CONSTANTS d1, d2, sweep,  \* two deliveries of a subtree rename, and a sweep
          a1, a2,         \* two sign-ins at a provider
          n1, n2,         \* two submissions
          r0, r1, r2, r3, r4, \* requests for tokens; r0 signs the client in
          w1, w2, w3, w4, \* calls for three embeds
          q1, q2, b1,     \* two saves of a plugin's settings, and its own write
          p1, p2,         \* two replicas
          h1, h2,         \* two settings beside a group
          l1, l2          \* two calls of the plugin's driver

MCSleepers == MCCasts \cup {{}}

MCTreeCasts == {{d1, d2}, {d1, sweep}, {d2, sweep}}

\* Concurrent refreshes and their revocation, by token or by a password reset; two
\* exchanges with both; two exchanges of codes that two people decide on.
Sent(a, b, c, d) == (r0 :> a) @@ (r1 :> b) @@ (r2 :> c) @@ (r3 :> d)

MCPlans == {Sent("exchange", "refresh", "refresh", "revoke"),
            Sent("exchange", "refresh", "refresh", "reset"),
            Sent("exchange", "refresh", "refresh", "refresh"),
            Sent("exchange", "exchange", "refresh", "reset"),
            Sent("exchange", "exchange", "verify", "verify")}

View(k, u) == [key |-> k, user |-> u, preview |-> FALSE]
Previewed(u) == [key |-> 1, user |-> u, preview |-> TRUE]
Asks(a, b, c, d) == (w1 :> a) @@ (w2 :> b) @@ (w3 :> c) @@ (w4 :> d)

\* Views and previews of one user and of several, guests among them.
MCAsked == {Asks(View(1, u1), Previewed(u1), View(2, u1), Previewed(u1)),
            Asks(View(1, u1), View(1, u2), View(1, None), View(2, u2)),
            Asks(View(1, u1), Previewed(u2), View(2, u1), View(3, u2)),
            Asks(Previewed(None), View(1, None), Previewed(u2), View(2, u2))}

\* A request for a group and a setting, and the plugin's own write, beside another
\* save or two calls.
MCOrigin == b1 :> q1
MCSite == (q1 :> p1) @@ (q2 :> p1) @@ (l1 :> p1) @@ (l2 :> p1)
MCWants == (q1 :> {Group, h1}) @@ (q2 :> {h1}) @@ (b1 :> {h2})
MCSettingsCasts == {{q1, q2}, {q1, l1, l2}}

\* Nothing distinguishes the two sign-ins or submissions.
Symmetry == Permutations({a1, a2}) \cup Permutations({n1, n2})
===============================================================================
