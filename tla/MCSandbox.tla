----------------------------- MODULE MCSandbox -----------------------------
EXTENDS Sandbox

Local ==
  [is_anonymous |-> FALSE, write_enable |-> TRUE, anon_upload_enable |-> FALSE,
   anon_mkdir_write_enable |-> FALSE, anon_other_write_enable |-> FALSE,
   chmod_enable |-> TRUE, chown_uploads |-> FALSE, mdtm_write |-> TRUE,
   port_enable |-> TRUE, pasv_enable |-> TRUE, timeouts |-> TRUE,
   async_abor_enable |-> FALSE, text_userdb_names |-> FALSE]

\* A local user, one who may only read, and anonymous users with every
\* combination of the write settings.
MCConfs ==
  {Local, [Local EXCEPT !.write_enable = FALSE, !.pasv_enable = FALSE]}
    \cup {[Local EXCEPT !.is_anonymous = TRUE, !.anon_upload_enable = u, !.anon_mkdir_write_enable = m,
                        !.anon_other_write_enable = o, !.chown_uploads = w, !.timeouts = FALSE,
                        !.port_enable = FALSE, !.text_userdb_names = TRUE] :
            u \in BOOLEAN, m \in BOOLEAN, o \in BOOLEAN, w \in BOOLEAN}
=============================================================================
