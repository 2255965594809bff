--------------------------- MODULE MCAuditConsumer ---------------------------
(***************************************************************************)
(* A small instance of the audit consumer: two events it stores, and one   *)
(* of every other kind.                                                    *)
(***************************************************************************)
EXTENDS AuditConsumer

CONSTANTS g1, g2, t1, f1, p1

MCKind ==
    [m \in Messages |-> CASE m \in {g1, g2} -> "good"
                          [] m = t1 -> "noTenant"
                          [] m = f1 -> "malformed"
                          [] m = p1 -> "poison"]

=============================================================================
