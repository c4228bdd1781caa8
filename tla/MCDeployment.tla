---- MODULE MCDeployment ----
EXTENDS Deployment
====
