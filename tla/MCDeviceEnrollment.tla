-------------------------- MODULE MCDeviceEnrollment --------------------------
(***************************************************************************)
(* An instance of DeviceEnrollment for TLC: the identifiers of the devices *)
(* are such that a login may make an account with either of two addresses, *)
(* so that two devices, or two logins of one, may share an address or not; *)
(* dl is a device whose row has no key.                                    *)
(***************************************************************************)
EXTENDS DeviceEnrollment, TLC

CONSTANTS d1, d2, dl, k1, k2, a0, a1, a2, h1, h2, e1, e2, p0, p1

Addresses == [d \in Devices |-> {e1, e2}]

EnrollmentSymmetry ==
    {p @@ q @@ r @@ s @@ t : p \in Permutations({h1, h2}), q \in Permutations({k1, k2}),
                             r \in Permutations({a1, a2}), s \in Permutations({d1, d2}),
                             t \in Permutations({e1, e2})}
=============================================================================
