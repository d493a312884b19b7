----------------------------- MODULE Capability -----------------------------
(***************************************************************************)
(* Capabilities of tpt-archon-bridge (capability.rs): tokens that grant a  *)
(* right over a resource, minted and revoked by one issuer that all the    *)
(* enforcement points (router, page cache, driver framework) share.        *)
(***************************************************************************)
EXTENDS Naturals

Right == {"Read", "Write", "ReadWrite"}

allows_read(r) == r \in {"Read", "ReadWrite"}
allows_write(r) == r \in {"Write", "ReadWrite"}

\* Resource::Page, Resource::Channel and Resource::Device.
PageOf(b) == <<"Page", b>>
ChannelOf(c) == <<"Channel", c>>
DeviceOf(d) == <<"Device", d>>

\* Capability::authorizes, which cannot see a revocation.
Covers(cap, resource, right) ==
  /\ cap.resource = resource
  /\ right \in {"Read", "ReadWrite"} => allows_read(cap.right)
  /\ right \in {"Write", "ReadWrite"} => allows_write(cap.right)

NewIssuer == [next_serial |-> 0, live |-> {}]

\* The token that mint returns, and the issuer it leaves behind.
Minted(issuer, resource, right) ==
  [serial |-> issuer.next_serial, resource |-> resource, right |-> right]
mint_reuses_serials(issuer) == [next_serial |-> issuer.next_serial + 1,
                                live |-> issuer.live \cup {0}]
mint(issuer) == [next_serial |-> issuer.next_serial + 1,
                 live |-> issuer.live \cup {issuer.next_serial}]

revoke(issuer, cap) == [issuer EXCEPT !.live = @ \ {cap.serial}]

validate(issuer, cap) == cap.serial \in issuer.live

authorizes(issuer, cap, resource, right) ==
  validate(issuer, cap) /\ Covers(cap, resource, right)
=============================================================================
