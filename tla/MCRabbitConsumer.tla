-------------------------- MODULE MCRabbitConsumer --------------------------
EXTENDS RabbitConsumer
CONSTANTS h1, h2
=============================================================================
