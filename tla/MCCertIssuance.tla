--------------------------- MODULE MCCertIssuance ---------------------------
(* CertIssuance with one enclave or two, and the server.                    *)
EXTENDS CertIssuance

CONSTANTS e1, e2, server, host, Blank

MCClient == [e \in {e1, e2} |->
    [f \in {"commonName", "localityName", "organizationName", "emailAddress"} |->
        IF f = "organizationName" THEN Blank ELSE <<e, f>>]]

=============================================================================
